---- MODULE Spec2Model ----
(***************************************************************************)
(* Payment settlement core of the PayFlow / InvoiceFlow / StockFlow        *)
(* ecosystem: PayFlowSDK.processPayment (the ledger transfer), payInvoice, *)
(* payOrder, updateProductStock, topUpWallet, sendPaymentNotification,     *)
(* createCompany, IntegrationService.transferMoney,                        *)
(* InvoiceFlowSDK.createInvoice, StockFlowSDK.createOrder,                 *)
(* AuthService.register, updateProfile and grantAppPermission, the signup  *)
(* and the auth-state listener of the StockFlow AuthContext, and the cloud *)
(* functions processMoMoPayment and momoWebhook, run by concurrent callers *)
(* against a document store, each handler one store round trip at a time.  *)
(*                                                                         *)
(* The store is modelled as the code uses it: getDoc/updateDoc are single  *)
(* reads and writes; runTransaction runs its update function on document   *)
(* snapshots (one transaction.get per await), buffers the writes, and      *)
(* commits them together only if no document it read has changed since     *)
(* (optimistic concurrency on a per-document version); on a conflict the   *)
(* update function is run again, up to MaxAttempts times, and then the     *)
(* transaction is rejected.  A second transaction.get of a document whose  *)
(* version has changed since the first aborts the attempt in the same way. *)
(* An error thrown by the update function rejects the transaction with     *)
(* nothing written; transaction.set throws such an error when the data    *)
(* holds a field whose value is undefined (the store is created without    *)
(* ignoreUndefinedProperties).                                             *)
(***************************************************************************)
EXTENDS Integers, Sequences, FiniteSets

(* ------------------------------ bounds --------------------------------- *)

\* number of calls issued by the clients (each call runs in its own slot)
MaxCalls == 2

\* attempts of one runTransaction before it is rejected as aborted
MaxAttempts == 2

Procs == 1..MaxCalls

(* --------------------------- documents --------------------------------- *)

\* user document ids the callers may name; "u0" names no document
UserIds == {"u0", "u1", "u2", "u3"}

\* email -> user id as getUserByEmail resolves it; "nobody" matches no user
Emails == {"e1", "e2", "e3", "nobody"}

\* "c9" names no company document until createCompany adds one
CompanyIds == {"c1", "c9"}
\* "i4" and "i5" name no invoice document until createInvoice adds one
InvoiceIds == {"i1", "i2", "i3", "i4", "i5", "i6"}
\* "o8" and "o9" name no order document until createOrder adds one
OrderIds == {"o1", "o2", "o3", "o4", "o5", "o6", "o7", "o8", "o9", "o10"}
\* "p0" names no product document
ProductIds == {"p0", "p1", "p2", "p3"}

\* amounts the callers pass (the code puts no check on the sign)
Amounts == {-2, 2}

\* the amounts among them that BusinessValidation.validatePaymentAmount accepts
ValidAmounts == {a \in Amounts : a > 0}

\* types a direct processPayment caller passes
DirectTypes == {"transfer", "wallet_topup"}

\* a user id without a document.  In a user document wallet tells what the
\* field walletBalance holds: "number" (the value is in walletBalance),
\* "undefined" (the document has no such field) or "NaN", and walletBalance is
\* 0 where it is no number; isActive = FALSE also stands for a document without
\* the field (the code reads it as !isActive only)
NoUser ==
  [exists |-> FALSE, isActive |-> FALSE, walletBalance |-> 0, wallet |-> "undefined",
   role |-> "none", ver |-> 0]

InitUsers ==
  [u \in UserIds |->
     CASE u = "u1" -> [exists |-> TRUE, isActive |-> TRUE, walletBalance |-> 3,
                       wallet |-> "number", role |-> "general_user", ver |-> 0]
       [] u = "u2" -> [exists |-> TRUE, isActive |-> TRUE, walletBalance |-> 1,
                       wallet |-> "number", role |-> "admin", ver |-> 0]
       [] u = "u3" -> [exists |-> TRUE, isActive |-> FALSE, walletBalance |-> 1,
                       wallet |-> "number", role |-> "general_user", ver |-> 0]
       [] OTHER    -> NoUser]

\* where(email == e), first match
UserOfEmail(e) ==
  CASE e = "e0" -> "u0"
    [] e = "e1" -> "u1"
    [] e = "e2" -> "u2"
    [] e = "e3" -> "u3"
    [] OTHER    -> "none"

\* a company id without a document
NoCompany == [exists |-> FALSE, ownerId |-> "none"]

InitCompanies ==
  [c \in CompanyIds |->
     IF c = "c1" THEN [exists |-> TRUE, ownerId |-> "u2"] ELSE NoCompany]

\* the companyId a caller of processPayment passes (companyId?: string);
\* "none": the field is left out and data.companyId is undefined
PassedCompanyIds == {"none", "c1"}

InvoiceStatuses == {"draft", "sent", "paid", "overdue", "cancelled"}

NoInvoice ==
  [exists |-> FALSE, companyId |-> "none", total |-> 0, status |-> "none",
   pastDue |-> FALSE, paymentTransactionId |-> 0]

\* pastDue: the invoice's dueDate is before the time of the calls (now > dueDate);
\* paymentTransactionId 0: the field is not set; "i6" was created under the
\* companyId "c9"
InitInvoices ==
  [i \in InvoiceIds |->
     CASE i = "i1" -> [exists |-> TRUE, companyId |-> "c1", total |-> 1, status |-> "sent",
                       pastDue |-> FALSE, paymentTransactionId |-> 0]
       [] i = "i2" -> [exists |-> TRUE, companyId |-> "c1", total |-> 1,
                       status |-> "cancelled", pastDue |-> FALSE,
                       paymentTransactionId |-> 0]
       [] i = "i3" -> [exists |-> TRUE, companyId |-> "c1", total |-> 1, status |-> "sent",
                       pastDue |-> TRUE, paymentTransactionId |-> 0]
       [] i = "i6" -> [exists |-> TRUE, companyId |-> "c9", total |-> 1, status |-> "sent",
                       pastDue |-> FALSE, paymentTransactionId |-> 0]
       [] OTHER    -> NoInvoice]

\* line items of each order: <<productId, quantity>>
OrderItems(o) ==
  CASE o = "o1" -> << [productId |-> "p1", quantity |-> 1] >>
    [] o = "o2" -> << [productId |-> "p1", quantity |-> 1], [productId |-> "p2", quantity |-> 2] >>
    [] o = "o5" -> << [productId |-> "p1", quantity |-> 1], [productId |-> "p1", quantity |-> 1] >>
    [] o = "o6" -> << [productId |-> "p1", quantity |-> 1] >>
    [] o = "o7" -> << [productId |-> "p3", quantity |-> 1] >>
    [] o = "o10" -> << [productId |-> "p2", quantity |-> 2] >>
    [] OTHER    -> << [productId |-> "p2", quantity |-> 1] >>

NoOrder ==
  [exists |-> FALSE, companyId |-> "none", customerId |-> "none", total |-> 0,
   status |-> "none", paymentTransactionId |-> 0, items |-> << >>]

InitOrders ==
  [o \in OrderIds |->
     IF o \in {"o8", "o9"} THEN NoOrder
     ELSE [exists |-> TRUE, companyId |-> "c1", customerId |-> "u1",
           total |-> IF o \in {"o2", "o5", "o10"} THEN 2 ELSE 1,
           status |-> IF o = "o6" THEN "cancelled" ELSE "pending",
           paymentTransactionId |-> 0, items |-> OrderItems(o)]]

NoProduct == [exists |-> FALSE, quantity |-> 0, isActive |-> FALSE, ver |-> 0]

\* "p3" is a product taken off sale (isActive = false) that is still in stock
InitProducts ==
  [p \in ProductIds |->
     IF p = "p0" THEN NoProduct
     ELSE [exists |-> TRUE, quantity |-> IF p = "p1" THEN 2 ELSE 1,
           isActive |-> p # "p3", ver |-> 0]]

(* ------------------------------ state ---------------------------------- *)

VARIABLES
  users,         \* users collection: id -> document
  transactions,  \* transactions collection, in order of insertion
  invoices,      \* invoices collection
  orders,        \* orders collection
  products,      \* products collection
  companies,     \* companies collection
  notifications, \* notifications collection, in order of insertion
  observed,      \* the change events of the store the triggers have handled
  calls,         \* the concurrent calls: position and locals of each
  commits,       \* number of ledger transactions the store has committed
  serialBal,     \* balances after running the committed transfers one at a time
  serialOk       \* every committed transfer was able to run in that order

vars == <<users, transactions, invoices, orders, products, companies, notifications,
          observed, calls, commits, serialBal, serialOk>>

\* no change event handled yet: tx counts the created transactions handled (they
\* are delivered in order of insertion), invoices and orders hold the documents
\* whose update to paid has been handled
NothingObserved == [tx |-> 0, invoices |-> {}, orders |-> {}]

NoSnap == NoUser

\* the metadata of a transfer: the correlation keys paymentMethod and
\* momoReference ("none": the key is absent)
NoMetadata == [paymentMethod |-> "none", momoReference |-> "none"]

\* no payment link in a result
NoLink == [kind |-> "none", id |-> "none"]

\* via: "sdk" for a call of the SDK itself, "integration" for a settlement
\* started by IntegrationService.processInvoicePayment / processOrderPayment,
\* "callable" for a request to the processPayment cloud function, and uid is
\* the authenticated caller of that request (for grantAppPermission: adminId);
\* method, supplied: the method and metadata arguments of topUpWallet;
\* args: the arguments of a call of a BusinessValidation function;
\* items: the line items of the order document payOrder has read;
\* companyId: data.companyId of processPayment ("none": undefined)
IdleCall ==
  [op |-> "idle", pc |-> "idle", via |-> "sdk", uid |-> "none", payerEmail |-> "none",
   payerId |-> "none", receiverId |-> "none", companyId |-> "none",
   amount |-> 0, type |-> "none", docId |-> "none",
   method |-> "none", supplied |-> NoMetadata, metadata |-> NoMetadata,
   args |-> << >>, items |-> << >>,
   snapPayer |-> NoSnap, snapReceiver |-> NoSnap, stockSnap |-> << >>,
   attempts |-> 0, stockDone |-> FALSE,
   success |-> FALSE, transactionId |-> 0, error |-> "none", paymentLink |-> NoLink]

Init ==
  /\ users = InitUsers
  /\ transactions = << >>
  /\ invoices = InitInvoices
  /\ orders = InitOrders
  /\ products = InitProducts
  /\ companies = InitCompanies
  /\ notifications = << >>
  /\ observed = NothingObserved
  /\ calls = [p \in Procs |-> IdleCall]
  /\ commits = 0
  /\ serialBal = [u \in UserIds |-> InitUsers[u].walletBalance]
  /\ serialOk = TRUE

(* ------------------------- helpers on calls ---------------------------- *)

\* a call that has returned: of its locals only the entry point, the payer and the
\* document it was called on are kept, next to the result
Returned(c) ==
  [c EXCEPT !.pc = "done", !.receiverId = "none", !.companyId = "none",
            !.amount = 0, !.type = "none",
            !.method = "none", !.supplied = NoMetadata, !.metadata = NoMetadata,
            !.snapPayer = NoSnap, !.snapReceiver = NoSnap, !.stockSnap = << >>,
            !.items = << >>, !.attempts = 0]

\* the call returns { success: false, error }
Fail(c, err) == [Returned(c) EXCEPT !.success = FALSE, !.error = err]

\* the call returns { success: true, transactionId }
Succeed(c) == [Returned(c) EXCEPT !.success = TRUE]

\* a call is started in the lowest free slot
CanStart(p) ==
  /\ calls[p].op = "idle"
  /\ \A q \in Procs : q < p => calls[q].op # "idle"

UnchangedLedger == UNCHANGED <<users, transactions, commits, serialBal, serialOk>>
UnchangedDomain ==
  UNCHANGED <<invoices, orders, products, companies, notifications, observed>>

(* ------------------- PayFlowSDK.processPayment ------------------------- *)

\* a caller invokes processPayment(data) with a payer, a receiver, a companyId
\* and a metadata of the given sets
InvokeProcessPaymentBetween(p, payers, receivers, amts, types, cos, metas) ==
  /\ CanStart(p)
  /\ \E payer \in payers, receiver \in receivers, amt \in amts, ty \in types,
        co \in cos, meta \in metas :
       calls' = [calls EXCEPT ![p] =
                   [IdleCall EXCEPT !.op = "processPayment", !.pc = "readPayer",
                                    !.payerId = payer, !.receiverId = receiver,
                                    !.companyId = co, !.amount = amt, !.type = ty,
                                    !.metadata = meta]]
  /\ UnchangedLedger /\ UnchangedDomain

\* a caller invokes processPayment(data) between any two user ids, with or
\* without a companyId
InvokeProcessPayment(p, amts, types) ==
  InvokeProcessPaymentBetween(p, UserIds, UserIds, amts, types, PassedCompanyIds,
                              {NoMetadata})

\* topUpWallet: metadata: { paymentMethod: method, ...metadata } -- a key of the
\* supplied metadata replaces the key written before the spread
TopUpMetadata(method, supplied) ==
  [paymentMethod |-> IF supplied.paymentMethod # "none"
                     THEN supplied.paymentMethod ELSE method,
   momoReference |-> supplied.momoReference]

\* topUpWallet(userId, amount, method, metadata): processPayment with payer =
\* receiver and no companyId
InvokeTopUpWallet(p, amts, methods, metas) ==
  /\ CanStart(p)
  /\ \E user \in UserIds, amt \in amts, method \in methods, supplied \in metas :
       calls' = [calls EXCEPT ![p] =
                   [IdleCall EXCEPT !.op = "topUpWallet", !.pc = "readPayer",
                                    !.payerId = user, !.receiverId = user,
                                    !.amount = amt, !.type = "wallet_topup",
                                    !.method = method, !.supplied = supplied,
                                    !.metadata = TopUpMetadata(method, supplied)]]
  /\ UnchangedLedger /\ UnchangedDomain

\* IntegrationService.transferMoney(fromUserId, toUserEmail, amount, description):
\* after the lookup, processPayment with no companyId
InvokeTransferMoney(p, amts) ==
  /\ CanStart(p)
  /\ \E from \in UserIds, email \in Emails, amt \in amts :
       calls' = [calls EXCEPT ![p] =
                   [IdleCall EXCEPT !.op = "transferMoney", !.pc = "lookup",
                                    !.payerId = from, !.docId = email,
                                    !.amount = amt, !.type = "transfer"]]
  /\ UnchangedLedger /\ UnchangedDomain

RecipientMissingUnchecked(to) == FALSE

\* transferMoney: if (!toUser) -- getUserByEmail found no user document
RecipientMissing(to) == to = "none" \/ ~users[to].exists

\* transferMoney: await getUserByEmail(toUserEmail)
TransferMoneyLookup(p) ==
  LET c == calls[p]
      to == UserOfEmail(c.docId) IN
  /\ c.pc = "lookup" /\ c.op = "transferMoney"
  /\ calls' = [calls EXCEPT ![p] =
                 IF RecipientMissing(to)
                 THEN Fail(c, "Recipient not found")
                 ELSE [c EXCEPT !.pc = "readPayer", !.receiverId = to]]
  /\ UnchangedLedger /\ UnchangedDomain

\* transaction.get(ref): the document as committed now
Snapshot(u) == IF users[u].exists THEN users[u] ELSE [NoSnap EXCEPT !.ver = users[u].ver]

\* await transaction.get(payerRef)
ReadPayer(p) ==
  LET c == calls[p] IN
  /\ c.pc = "readPayer"
  /\ calls' = [calls EXCEPT ![p] =
                 [c EXCEPT !.pc = "readReceiver", !.snapPayer = Snapshot(c.payerId)]]
  /\ UnchangedLedger /\ UnchangedDomain

\* payerData.walletBalance < data.amount: false when the balance is undefined
\* or NaN
BalanceBelow(snap, amount) == snap.wallet = "number" /\ snap.walletBalance < amount

\* processPayment without the check that both users are active
PaymentErrorNoActiveCheck(c) ==
  IF ~c.snapPayer.exists THEN "Payer not found"
  ELSE IF ~c.snapReceiver.exists THEN "Receiver not found"
  ELSE IF c.type # "wallet_topup" /\ BalanceBelow(c.snapPayer, c.amount)
       THEN "Insufficient wallet balance"
  ELSE "none"

\* the error the update function throws on the snapshots it read, or "none"
PaymentError(c) ==
  IF ~c.snapPayer.exists THEN "Payer not found"
  ELSE IF ~c.snapReceiver.exists THEN "Receiver not found"
  ELSE IF ~c.snapPayer.isActive \/ ~c.snapReceiver.isActive
       THEN "One or more users are inactive"
  ELSE IF c.type # "wallet_topup" /\ BalanceBelow(c.snapPayer, c.amount)
       THEN "Insufficient wallet balance"
  ELSE "none"

AfterPaymentFailureThrown(c, err) == [c EXCEPT !.pc = "thrown", !.error = err]

\* where a call goes when its ledger transfer has failed: the catch of
\* processPayment returns { success: false, error }
AfterPaymentFailure(c, err) == Fail(c, err)

\* runTransaction after an attempt was aborted: the update function is run
\* again from its first read, or, with no attempt left, the transaction is
\* rejected
AfterPaymentAbort(c) ==
  IF c.attempts + 1 >= MaxAttempts
  THEN AfterPaymentFailure(c, "aborted")
  ELSE [c EXCEPT !.pc = "readPayer", !.attempts = @ + 1,
                 !.snapPayer = NoSnap, !.snapReceiver = NoSnap]

\* the receiver is the document the transaction has read as the payer, and it
\* was written by another commit since: the second transaction.get of it aborts
\* the attempt
ReadConflict(c) ==
  c.receiverId = c.payerId /\ users[c.receiverId].ver # c.snapPayer.ver

\* transaction.set(transactionRef, transactionData) on companyId:
\* data.companyId: the store refuses a field whose value is undefined, and the
\* call throws inside the update function
RecordError(c) ==
  IF c.companyId = "none" THEN "Unsupported field value: undefined" ELSE "none"

\* await transaction.get(receiverRef), then the update function up to its
\* return: the checks on the two snapshots, the buffered updates and the set
\* of the transaction record
ReadReceiver(p) ==
  LET c == calls[p]
      r == [c EXCEPT !.snapReceiver = Snapshot(c.receiverId)] IN
  /\ c.pc = "readReceiver"
  /\ calls' = [calls EXCEPT ![p] =
                 IF ReadConflict(c)
                 THEN AfterPaymentAbort(c)
                 ELSE IF PaymentError(r) # "none"
                 THEN AfterPaymentFailure(r, PaymentError(r))
                 ELSE IF RecordError(r) # "none"
                 THEN AfterPaymentFailure(r, RecordError(r))
                 ELSE [r EXCEPT !.pc = "commit"]]
  /\ UnchangedLedger /\ UnchangedDomain

\* a transfer whose commit does not look at what was written since its reads
PaymentConflictUnchecked(c) == FALSE

\* a document the transaction read was written by another commit since
PaymentConflict(c) ==
  \/ users[c.payerId].ver # c.snapPayer.ver
  \/ users[c.receiverId].ver # c.snapReceiver.ver

\* transaction.update(ref, { walletBalance: snapshot balance + delta }): the sum
\* is NaN when the snapshot's balance is undefined or NaN
WithBalance(document, snap, delta) ==
  IF snap.wallet = "number"
  THEN [document EXCEPT !.walletBalance = snap.walletBalance + delta,
                        !.wallet = "number"]
  ELSE [document EXCEPT !.walletBalance = 0, !.wallet = "NaN"]

\* the buffered writes, applied in the order the update function issued them
ApplyPayment(us, c) ==
  LET debited ==
        IF c.type # "wallet_topup"
        THEN [us EXCEPT ![c.payerId] = WithBalance(@, c.snapPayer, 0 - c.amount)]
        ELSE us
      credited ==
        [debited EXCEPT ![c.receiverId] = WithBalance(@, c.snapReceiver, c.amount)]
      written == IF c.type # "wallet_topup" THEN {c.payerId, c.receiverId} ELSE {c.receiverId}
  IN [u \in UserIds |-> IF u \in written
                        THEN [credited[u] EXCEPT !.ver = @ + 1]
                        ELSE credited[u]]

\* the transaction document set by the update function
TransactionRecord(c, id) ==
  [id |-> id, payerId |-> c.payerId, receiverId |-> c.receiverId,
   companyId |-> c.companyId,
   amount |-> c.amount, type |-> c.type, status |-> "completed",
   ref |-> IF c.type \in {"invoice_payment", "product_purchase"} THEN c.docId ELSE "none",
   paymentMethod |-> c.metadata.paymentMethod,
   momoReference |-> c.metadata.momoReference]

\* where a call goes when its ledger transfer has committed
AfterPaymentSuccess(c, id) ==
  IF c.op \in {"payInvoice", "payOrder"}
  THEN [c EXCEPT !.pc = "markPaid", !.transactionId = id,
                 !.snapPayer = NoSnap, !.snapReceiver = NoSnap, !.attempts = 0]
  ELSE Succeed([c EXCEPT !.transactionId = id])

\* processPayment run on its own against balances b: can it succeed, and its result
SerialCanPay(b, c) ==
  /\ RecordError(c) = "none"
  /\ InitUsers[c.payerId].exists /\ InitUsers[c.receiverId].exists
  /\ InitUsers[c.payerId].isActive /\ InitUsers[c.receiverId].isActive
  /\ c.type # "wallet_topup" => b[c.payerId] >= c.amount

SerialPay(b, c) ==
  LET debited == IF c.type # "wallet_topup"
                 THEN [b EXCEPT ![c.payerId] = b[c.payerId] - c.amount]
                 ELSE b
  IN [debited EXCEPT ![c.receiverId] = b[c.receiverId] + c.amount]

\* the commit of runTransaction: all writes together, or a retry, or rejection
CommitPayment(p) ==
  LET c == calls[p]
      id == Len(transactions) + 1 IN
  /\ c.pc = "commit"
  /\ IF PaymentConflict(c)
     THEN /\ calls' = [calls EXCEPT ![p] = AfterPaymentAbort(c)]
          /\ UnchangedLedger
     ELSE /\ users' = ApplyPayment(users, c)
          /\ transactions' = Append(transactions, TransactionRecord(c, id))
          /\ commits' = commits + 1
          /\ serialOk' = (serialOk /\ SerialCanPay(serialBal, c))
          /\ serialBal' = SerialPay(serialBal, c)
          /\ calls' = [calls EXCEPT ![p] = AfterPaymentSuccess(c, id)]
  /\ UnchangedDomain

LedgerStep(p) == ReadPayer(p) \/ ReadReceiver(p) \/ CommitPayment(p)

\* the ledger on its own: transfers between any two user ids that name a
\* company, and top-ups (which name none)
NextLedger ==
  \E p \in Procs :
    \/ InvokeProcessPaymentBetween(p, UserIds, UserIds, Amounts, {"transfer"}, {"c1"},
                                   {NoMetadata})
    \/ InvokeTopUpWallet(p, Amounts, {"momo"}, {NoMetadata})
    \/ LedgerStep(p)

SpecLedger == Init /\ [][NextLedger]_vars

\* the accounts of the calls that are followed to their return: u1 and u2 pay,
\* u2 and the deactivated u3 receive
TerminationPayers == {"u1", "u2"}
TerminationReceivers == {"u2", "u3"}

\* concurrent processPayment calls against a fair store: every read and every
\* commit a call is waiting for is answered
NextTermination ==
  \E p \in Procs :
    \/ InvokeProcessPaymentBetween(p, TerminationPayers, TerminationReceivers,
                                   ValidAmounts, DirectTypes, PassedCompanyIds,
                                   {NoMetadata})
    \/ LedgerStep(p)

SpecTermination ==
  /\ Init /\ [][NextTermination]_vars
  /\ \A p \in Procs : WF_vars(LedgerStep(p))

\* IntegrationService.transferMoney, next to direct transfers from u1 to u2
\* that name a company
NextTransferMoney ==
  \E p \in Procs :
    \/ InvokeTransferMoney(p, ValidAmounts)
    \/ InvokeProcessPaymentBetween(p, {"u1"}, {"u2"}, ValidAmounts, {"transfer"},
                                   {"c1"}, {NoMetadata})
    \/ TransferMoneyLookup(p)
    \/ LedgerStep(p)

SpecTransferMoney == Init /\ [][NextTransferMoney]_vars

(* ------------- BusinessValidation.validatePaymentAmount ---------------- *)

\* validatePaymentAmount: the limit of 100,000 SZL
MaxTransactionAmount == 100000

\* a value of the type number: an integer, or NaN
JsNumber(v) == [nan |-> FALSE, val |-> v]
NaN == [nan |-> TRUE, val |-> 0]

\* x <= y and x > y on numbers: a comparison with NaN is false
JsLessOrEqual(x, y) == ~x.nan /\ ~y.nan /\ x.val <= y.val
JsGreater(x, y) == ~x.nan /\ ~y.nan /\ x.val > y.val

\* BusinessValidation.validatePaymentAmount(amount): { valid, error }
ValidatePaymentAmountResult(x) ==
  IF JsLessOrEqual(x, JsNumber(0))
  THEN [valid |-> FALSE, error |-> "Amount must be greater than 0"]
  ELSE IF JsGreater(x, JsNumber(MaxTransactionAmount))
  THEN [valid |-> FALSE, error |-> "Amount exceeds maximum limit of 100,000 SZL"]
  ELSE [valid |-> TRUE, error |-> "none"]

\* BusinessValidation.validatePaymentAmount(amount).valid of an integer amount
ValidatePaymentAmount(amount) == ValidatePaymentAmountResult(JsNumber(amount)).valid

\* the amounts validatePaymentAmount is called with: around both bounds, and NaN
ProbedAmounts ==
  {JsNumber(v) : v \in {-1, 0, 1, 2, 50000, MaxTransactionAmount - 1,
                        MaxTransactionAmount, MaxTransactionAmount + 1, 200000}}
    \cup {NaN}

\* a caller invokes validatePaymentAmount(amount) and gets its result
ValidatePaymentAmountCall(p) ==
  /\ CanStart(p)
  /\ \E x \in ProbedAmounts :
       LET result == ValidatePaymentAmountResult(x) IN
       calls' = [calls EXCEPT ![p] =
                   [IdleCall EXCEPT !.op = "validatePaymentAmount", !.pc = "done",
                                    !.args = <<x>>, !.success = result.valid,
                                    !.error = result.error]]
  /\ UnchangedLedger /\ UnchangedDomain

NextValidatePaymentAmount == \E p \in Procs : ValidatePaymentAmountCall(p)

SpecValidatePaymentAmount == Init /\ [][NextValidatePaymentAmount]_vars

\* amounts around the limit that callers pass
CeilingAmounts == {MaxTransactionAmount, MaxTransactionAmount + 1}

\* top-ups and transfers of amounts at and above the limit
NextCeiling ==
  \E p \in Procs :
    \/ InvokeTopUpWallet(p, CeilingAmounts, {"momo"}, {NoMetadata})
    \/ InvokeProcessPayment(p, CeilingAmounts, DirectTypes)
    \/ LedgerStep(p)

SpecCeiling == Init /\ [][NextCeiling]_vars

(* ------------- BusinessValidation.validateStockAvailability ------------ *)

\* products.find(p => p.id === productId): the index of the first product with
\* that id, 0 when there is none
RECURSIVE FindProduct(_, _, _)
FindProduct(catalogue, productId, k) ==
  IF k > Len(catalogue) THEN 0
  ELSE IF catalogue[k].id = productId THEN k
  ELSE FindProduct(catalogue, productId, k + 1)

\* the result without a failure
StockAvailable == [valid |-> TRUE, error |-> "none", productId |-> "none"]

\* validateStockAvailability(products, orderItems) from item k on: the items are
\* tested one after the other, each against the quantity of its product
RECURSIVE ValidateStockAvailability(_, _, _)
ValidateStockAvailability(catalogue, orderItems, k) ==
  IF k > Len(orderItems) THEN StockAvailable
  ELSE LET item == orderItems[k]
           found == FindProduct(catalogue, item.productId, 1) IN
       IF found = 0
       THEN [valid |-> FALSE, error |-> "Product not found", productId |-> item.productId]
       ELSE IF ~catalogue[found].isActive
       THEN [valid |-> FALSE, error |-> "Product is not available",
             productId |-> item.productId]
       ELSE IF catalogue[found].quantity < item.quantity
       THEN [valid |-> FALSE, error |-> "Insufficient stock", productId |-> item.productId]
       ELSE ValidateStockAvailability(catalogue, orderItems, k + 1)

\* the product lists the function is called with: "p1" active with one or two
\* units, "p3" not active; "p9" is in no list
ProbedCatalogues ==
  {<< [id |-> "p1", isActive |-> TRUE, quantity |-> q],
      [id |-> "p3", isActive |-> FALSE, quantity |-> 1] >> : q \in {1, 2}}

ProbedItems ==
  {[productId |-> i, quantity |-> q] : i \in {"p1", "p3", "p9"}, q \in {1, 2}}

\* the order item lists the function is called with: up to two items
ProbedOrderItems ==
  {<< >>} \cup {<<a>> : a \in ProbedItems} \cup {<<a, b>> : a \in ProbedItems, b \in ProbedItems}

\* a caller invokes validateStockAvailability(products, orderItems) and gets its
\* result
ValidateStockAvailabilityCall(p) ==
  /\ CanStart(p)
  /\ \E catalogue \in ProbedCatalogues, orderItems \in ProbedOrderItems :
       LET result == ValidateStockAvailability(catalogue, orderItems, 1) IN
       calls' = [calls EXCEPT ![p] =
                   [IdleCall EXCEPT !.op = "validateStockAvailability", !.pc = "done",
                                    !.args = <<catalogue, orderItems>>,
                                    !.success = result.valid, !.error = result.error,
                                    !.docId = result.productId]]
  /\ UnchangedLedger /\ UnchangedDomain

NextValidateStock == \E p \in Procs : ValidateStockAvailabilityCall(p)

SpecValidateStock == Init /\ [][NextValidateStock]_vars

(* ---------------- the processPayment cloud function -------------------- *)

\* the payerId field of the request data; "absent": the data has no such field
DataPayerIds == UserIds \cup {"absent"}

\* { payerId: authContext.uid, ...data }: a payerId in data replaces the caller's
RequestPayer(uid, dataPayerId) == IF dataPayerId # "absent" THEN dataPayerId ELSE uid

\* an authenticated caller uid sends a request with data to the callable
InvokeProcessPaymentCallable(p, amts, types) ==
  /\ CanStart(p)
  /\ \E uid \in UserIds, dataPayerId \in DataPayerIds, receiver \in UserIds,
        amt \in amts, ty \in types, co \in PassedCompanyIds :
       calls' = [calls EXCEPT ![p] =
                   [IdleCall EXCEPT !.op = "processPayment", !.via = "callable",
                                    !.pc = "authorize", !.uid = uid,
                                    !.payerId = RequestPayer(uid, dataPayerId),
                                    !.receiverId = receiver, !.companyId = co,
                                    !.amount = amt, !.type = ty]]
  /\ UnchangedLedger /\ UnchangedDomain

\* the callable reads the caller's user document and throws when it is missing
\* or deactivated; otherwise it calls PayFlowSDK.processPayment
AuthorizeCaller(p) ==
  LET c == calls[p]
      caller == users[c.uid] IN
  /\ c.pc = "authorize"
  /\ calls' = [calls EXCEPT ![p] =
                 IF ~caller.exists THEN Fail(c, "User not found")
                 ELSE IF ~caller.isActive THEN Fail(c, "Account is deactivated")
                 ELSE [c EXCEPT !.pc = "readPayer"]]
  /\ UnchangedLedger /\ UnchangedDomain

NextCallable ==
  \E p \in Procs :
    \/ InvokeProcessPaymentCallable(p, ValidAmounts, DirectTypes)
    \/ AuthorizeCaller(p)
    \/ LedgerStep(p)

SpecCallable == Init /\ [][NextCallable]_vars

\* the methods topUpWallet accepts
TopUpMethods == {"momo", "bank_transfer"}

\* metadata a caller of topUpWallet supplies (metadata?: any): none, a provider
\* reference, or a provider reference next to a paymentMethod key of its own
SuppliedMetadata ==
  {NoMetadata,
   [paymentMethod |-> "none", momoReference |-> "m1"],
   [paymentMethod |-> "bank_transfer", momoReference |-> "m1"]}

\* topUpWallet, next to direct transfers from u1 to u2 that name a company
NextTopUp ==
  \E p \in Procs :
    \/ InvokeTopUpWallet(p, ValidAmounts, TopUpMethods, SuppliedMetadata)
    \/ InvokeProcessPaymentBetween(p, {"u1"}, {"u2"}, ValidAmounts, {"transfer"},
                                   {"c1"}, {NoMetadata})
    \/ LedgerStep(p)

SpecTopUp == Init /\ [][NextTopUp]_vars

(* --------------------- PayFlowSDK.payInvoice --------------------------- *)

\* a caller invokes payInvoice(invoiceId, payerId)
InvokePayInvoice(p, invs, payers) ==
  /\ CanStart(p)
  /\ \E inv \in invs, payer \in payers :
       calls' = [calls EXCEPT ![p] =
                   [IdleCall EXCEPT !.op = "payInvoice", !.pc = "getInvoice",
                                    !.payerId = payer, !.docId = inv,
                                    !.type = "invoice_payment"]]
  /\ UnchangedLedger /\ UnchangedDomain

\* a settlement that does not look at the status of the document it read
AlreadyPaidUnchecked(document) == FALSE

\* payInvoice, payOrder: the one status the settlement is refused on
AlreadyPaid(document) == document.status = "paid"

\* await getDoc(invoiceRef) and the checks on what it returned
GetInvoice(p) ==
  LET c == calls[p]
      invoice == invoices[c.docId] IN
  /\ c.pc = "getInvoice"
  /\ calls' = [calls EXCEPT ![p] =
                 IF ~invoice.exists
                 THEN Fail(c, "Invoice not found")
                 ELSE IF AlreadyPaid(invoice)
                 THEN Fail(c, "Invoice already paid")
                 ELSE [c EXCEPT !.pc = "getCompany", !.amount = invoice.total,
                                !.companyId = invoice.companyId]]
  /\ UnchangedLedger /\ UnchangedDomain

\* await getDoc(doc(db, 'companies', companyId)) of the invoice or order the
\* call has read: the receiver is the company's owner
GetCompany(p) ==
  LET c == calls[p]
      company == companies[c.companyId] IN
  /\ c.pc = "getCompany"
  /\ calls' = [calls EXCEPT ![p] =
                 IF ~company.exists
                 THEN Fail(c, "Company not found")
                 ELSE [c EXCEPT !.receiverId = company.ownerId,
                                !.pc = IF c.op = "payOrder" THEN "stockRead"
                                       ELSE "readPayer"]]
  /\ UnchangedLedger /\ UnchangedDomain

\* where a settlement goes when the document is marked paid: payInvoice and
\* payOrder return { success: true, transactionId }, and
\* IntegrationService.processInvoicePayment / processOrderPayment go on to
\* sendPaymentNotification with that result
AfterMarkPaid(c) ==
  IF c.via = "integration" THEN [Returned(c) EXCEPT !.pc = "notify"] ELSE Succeed(c)

\* payInvoice: await updateDoc(invoiceRef, { status: 'paid', ... })
MarkInvoicePaid(p) ==
  LET c == calls[p] IN
  /\ c.pc = "markPaid" /\ c.op = "payInvoice"
  /\ invoices' = [invoices EXCEPT ![c.docId].status = "paid",
                                  ![c.docId].paymentTransactionId = c.transactionId]
  /\ calls' = [calls EXCEPT ![p] = AfterMarkPaid(c)]
  /\ UnchangedLedger /\ UNCHANGED <<orders, products, notifications, observed, companies>>

\* the invoice the racing settlements are about
OpenInvoices == {"i1"}

NextInvoices ==
  \E p \in Procs :
    \/ InvokePayInvoice(p, OpenInvoices, UserIds)
    \/ GetInvoice(p)
    \/ GetCompany(p)
    \/ LedgerStep(p)
    \/ MarkInvoicePaid(p)

SpecInvoices == Init /\ [][NextInvoices]_vars

(* ---------------------- PayFlowSDK.payOrder ---------------------------- *)

\* a caller invokes payOrder(orderId, payerId)
InvokePayOrder(p, ords, payers) ==
  /\ CanStart(p)
  /\ \E ord \in ords, payer \in payers :
       calls' = [calls EXCEPT ![p] =
                   [IdleCall EXCEPT !.op = "payOrder", !.pc = "getOrder",
                                    !.payerId = payer, !.docId = ord,
                                    !.type = "product_purchase"]]
  /\ UnchangedLedger /\ UnchangedDomain

\* await getDoc(orderRef) and the checks on what it returned
GetOrder(p) ==
  LET c == calls[p]
      order == orders[c.docId] IN
  /\ c.pc = "getOrder"
  /\ calls' = [calls EXCEPT ![p] =
                 IF ~order.exists
                 THEN Fail(c, "Order not found")
                 ELSE IF AlreadyPaid(order)
                 THEN Fail(c, "Order already paid")
                 ELSE [c EXCEPT !.pc = "getCompany", !.amount = order.total,
                                !.companyId = order.companyId,
                                !.items = order.items]]
  /\ UnchangedLedger /\ UnchangedDomain

\* updateProductStock without the comparison of the quantities
StockErrorUnchecked(product, item) == "none"

\* updateProductStock: the check of the update function on the product it just read
StockError(product, item) ==
  IF product.quantity < item.quantity THEN "Insufficient stock" ELSE "none"

\* the error of a transaction.get issued after a transaction.update of the same
\* transaction
ReadsBeforeWrites ==
  "Firestore transactions require all reads to be executed before all writes."

\* the loop of updateProductStock is at a line item after the first: the
\* transaction holds the buffered update of an earlier line, so the store refuses
\* this transaction.get and the update function throws; the error is not one
\* runTransaction retries
ReadAfterWrite(c) == Len(c.stockSnap) > 0

\* updateProductStock: one turn of the loop, await transaction.get(productRef),
\* the stock check, and the buffered update of that product
StockRead(p) ==
  LET c == calls[p]
      item == c.items[Len(c.stockSnap) + 1]
      product == products[item.productId]
      snaps == Append(c.stockSnap, product) IN
  /\ c.pc = "stockRead"
  /\ calls' = [calls EXCEPT ![p] =
                   IF ReadAfterWrite(c)
                   THEN Fail(c, ReadsBeforeWrites)
                   ELSE IF ~product.exists
                   THEN Fail(c, "Product not found")
                   ELSE IF StockError(product, item) # "none"
                   THEN Fail(c, StockError(product, item))
                   ELSE [c EXCEPT !.stockSnap = snaps,
                                  !.pc = IF Len(snaps) = Len(c.items)
                                         THEN "stockCommit" ELSE "stockRead"]]
  /\ UnchangedLedger /\ UnchangedDomain

\* a stock update whose commit does not look at what was written since its reads
StockConflictUnchecked(c) == FALSE

\* a product the stock transaction read was written by another commit since
StockConflict(c) ==
  \E k \in 1..Len(c.stockSnap) :
    products[c.items[k].productId].ver # c.stockSnap[k].ver

StockDecrementUnapplied(quantity, ordered) == quantity

\* quantity: product.quantity - item.quantity
StockDecrement(quantity, ordered) == quantity - ordered

\* the buffered product updates, applied in the order of the line items
RECURSIVE ApplyStock(_, _, _, _)
ApplyStock(ps, items, snaps, k) ==
  IF k > Len(items) THEN ps
  ELSE ApplyStock([ps EXCEPT ![items[k].productId].quantity =
                                 StockDecrement(snaps[k].quantity, items[k].quantity)],
                  items, snaps, k + 1)

StockWritten(items) == {items[k].productId : k \in 1..Len(items)}

\* the commit of the stock transaction: all updates together, a retry, or rejection
StockCommit(p) ==
  LET c == calls[p]
      items == c.items
      updated == ApplyStock(products, items, c.stockSnap, 1) IN
  /\ c.pc = "stockCommit"
  /\ IF StockConflict(c)
     THEN /\ calls' = [calls EXCEPT ![p] =
                         IF c.attempts + 1 >= MaxAttempts
                         THEN Fail(c, "aborted")
                         ELSE [c EXCEPT !.pc = "stockRead", !.attempts = @ + 1,
                                        !.stockSnap = << >>]]
          /\ UNCHANGED products
     ELSE /\ products' = [q \in ProductIds |->
                            IF q \in StockWritten(items)
                            THEN [updated[q] EXCEPT !.ver = @ + 1]
                            ELSE updated[q]]
          /\ calls' = [calls EXCEPT ![p] =
                         [c EXCEPT !.pc = "readPayer", !.stockDone = TRUE,
                                   !.stockSnap = << >>, !.items = << >>,
                                   !.attempts = 0]]
  /\ UnchangedLedger /\ UNCHANGED <<invoices, orders, notifications, observed, companies>>

\* payOrder: await updateDoc(orderRef, { status: 'paid', ... })
MarkOrderPaid(p) ==
  LET c == calls[p] IN
  /\ c.pc = "markPaid" /\ c.op = "payOrder"
  /\ orders' = [orders EXCEPT ![c.docId].status = "paid",
                              ![c.docId].paymentTransactionId = c.transactionId]
  /\ calls' = [calls EXCEPT ![p] = AfterMarkPaid(c)]
  /\ UnchangedLedger /\ UNCHANGED <<invoices, products, notifications, observed, companies>>

\* the orders the racing settlements are about
RaceOrders == {"o1", "o3", "o4"}

\* o2 and o10 ask more of p2 than it has: their calls end in the stock
\* transaction, before the payer is looked at, so one payer stands for all
NextOrders ==
  \E p \in Procs :
    \/ InvokePayOrder(p, RaceOrders, UserIds)
    \/ InvokePayOrder(p, {"o2", "o10"}, {"u1"})
    \/ GetOrder(p)
    \/ GetCompany(p)
    \/ StockRead(p)
    \/ StockCommit(p)
    \/ LedgerStep(p)
    \/ MarkOrderPaid(p)

SpecOrders == Init /\ [][NextOrders]_vars

\* payOrder calls on an order that lists one product in two line items
DuplicateLineOrders == {"o1", "o5"}

NextDuplicates ==
  \E p \in Procs :
    \/ InvokePayOrder(p, DuplicateLineOrders, {"u1"})
    \/ GetOrder(p)
    \/ GetCompany(p)
    \/ StockRead(p)
    \/ StockCommit(p)
    \/ LedgerStep(p)
    \/ MarkOrderPaid(p)

SpecDuplicates == Init /\ [][NextDuplicates]_vars

(* ------------- the mark-paid write rejected by the store --------------- *)

\* payInvoice, payOrder: the updateDoc that marks the document paid rejects (the
\* store refuses or cannot be reached); the catch of the method returns
\* { success: false, error } and nothing is written
MarkPaidRejected(p) ==
  LET c == calls[p] IN
  /\ c.pc = "markPaid"
  /\ calls' = [calls EXCEPT ![p] = Fail(c, "update rejected")]
  /\ UnchangedLedger /\ UnchangedDomain

NextMarkPaidFailure ==
  \E p \in Procs :
    \/ InvokePayInvoice(p, OpenInvoices, {"u1"})
    \/ InvokePayOrder(p, {"o1"}, {"u1"})
    \/ GetInvoice(p)
    \/ GetOrder(p)
    \/ GetCompany(p)
    \/ StockRead(p)
    \/ StockCommit(p)
    \/ LedgerStep(p)
    \/ MarkInvoicePaid(p)
    \/ MarkOrderPaid(p)
    \/ MarkPaidRejected(p)

SpecMarkPaidFailure == Init /\ [][NextMarkPaidFailure]_vars

(* ------------- settlements of closed and of settled documents ---------- *)

\* the invoices a settlement is to be refused on: cancelled, or past their due date
ClosedInvoices == {"i2", "i3"}

NextClosedInvoices ==
  \E p \in Procs :
    \/ InvokePayInvoice(p, ClosedInvoices, UserIds)
    \/ GetInvoice(p)
    \/ GetCompany(p)
    \/ LedgerStep(p)
    \/ MarkInvoicePaid(p)

SpecClosedInvoices == Init /\ [][NextClosedInvoices]_vars

\* the orders a settlement is to be refused on: cancelled, or of a product that
\* is not active
ClosedOrders == {"o6", "o7"}

NextClosedOrders ==
  \E p \in Procs :
    \/ InvokePayOrder(p, ClosedOrders, UserIds)
    \/ GetOrder(p)
    \/ GetCompany(p)
    \/ StockRead(p)
    \/ StockCommit(p)
    \/ LedgerStep(p)
    \/ MarkOrderPaid(p)

SpecClosedOrders == Init /\ [][NextClosedOrders]_vars

(* ------------------------- StockFlowSDK -------------------------------- *)

\* quantities a caller of StockFlowSDK.updateProductStock passes
NewQuantities == {-1, 3}

\* StockFlowSDK.updateProductStock(productId, newQuantity): one updateDoc of the
\* product document with the given quantity; updateDoc rejects when the
\* document does not exist and the catch returns the failure
StockFlowUpdateProductStock(p) ==
  \E q \in ProductIds, newQuantity \in NewQuantities :
    LET c == [IdleCall EXCEPT !.op = "updateProductStock", !.docId = q] IN
    /\ CanStart(p)
    /\ IF products[q].exists
         THEN /\ products' = [products EXCEPT ![q].quantity = newQuantity,
                                              ![q].ver = @ + 1]
              /\ calls' = [calls EXCEPT ![p] = Succeed(c)]
         ELSE /\ products' = products
              /\ calls' = [calls EXCEPT ![p] = Fail(c, "No document to update")]
    /\ UnchangedLedger
    /\ UNCHANGED <<invoices, orders, notifications, observed, companies>>

OrderStatuses == {"pending", "paid", "shipped", "delivered", "cancelled"}

\* the order data (Omit<Order, 'id' | 'createdAt' | 'updatedAt'>) a caller of
\* createOrder passes: the company "c9" has no document, the product "p0" has
\* none, and nothing ties the total to the items
CreatedOrders ==
  [exists : {TRUE}, companyId : {"c1", "c9"}, customerId : {"u1"}, total : {1, 7},
   status : {"pending", "paid"}, paymentTransactionId : {0},
   items : {<< [productId |-> "p1", quantity |-> 1] >>,
            << [productId |-> "p0", quantity |-> 1] >>}]

\* StockFlowSDK.createOrder(data): addDoc of the data as passed, under a fresh
\* document id
CreateOrder(p) ==
  /\ CanStart(p)
  /\ \E o \in OrderIds, data \in CreatedOrders :
       /\ ~orders[o].exists
       /\ orders' = [orders EXCEPT ![o] = data]
       /\ calls' = [calls EXCEPT ![p] =
                      Succeed([IdleCall EXCEPT !.op = "createOrder", !.docId = o])]
  /\ UnchangedLedger /\ UNCHANGED <<invoices, products, notifications, observed, companies>>

\* the orders settled next to the direct stock updates: o1, and the orders that
\* createOrder adds
RestockedOrders == {"o1", "o8", "o9"}

NextStock ==
  \E p \in Procs :
    \/ CreateOrder(p)
    \/ InvokePayOrder(p, RestockedOrders, {"u1"})
    \/ GetOrder(p)
    \/ GetCompany(p)
    \/ StockRead(p)
    \/ StockCommit(p)
    \/ LedgerStep(p)
    \/ MarkOrderPaid(p)
    \/ StockFlowUpdateProductStock(p)

SpecStock == Init /\ [][NextStock]_vars

(* ------------------- AuthService / AuthProvider ------------------------ *)

\* balances a caller of updateProfile or updateWalletBalance passes
NewBalances == {0, 5}

\* no field at all
NoFields == [f \in {} |-> 0]

\* the updates (Partial<User>) a caller of updateProfile passes, as the fields
\* they carry: profile fields only, a walletBalance (a number), an isActive or
\* a role
ProfileUpdates ==
  {NoFields}
    \cup {[walletBalance |-> b, wallet |-> "number"] : b \in NewBalances}
    \cup {[isActive |-> a] : a \in BOOLEAN}
    \cup {[role |-> r] : r \in {"admin", "general_user"}}

\* role of the user document
RoleOf(u) == users[u].role

\* updateDoc(userRef, {...updates, updatedAt}): a plain write of the given fields
UpdateUserDoc(us, u, updates) ==
  [us EXCEPT ![u] =
     [f \in DOMAIN us[u] |->
        IF f \in DOMAIN updates THEN updates[f]
        ELSE IF f = "ver" THEN us[u][f] + 1
        ELSE us[u][f]]]

\* AuthService.updateProfile(userId, updates): one updateDoc; updateDoc rejects
\* when the document does not exist and the catch returns the failure
UpdateProfileCall(p, op, u, updates) ==
  /\ CanStart(p)
  /\ IF users[u].exists
       THEN /\ users' = UpdateUserDoc(users, u, updates)
            /\ calls' = [calls EXCEPT ![p] =
                           Succeed([IdleCall EXCEPT !.op = op, !.payerId = u])]
       ELSE /\ users' = users
            /\ calls' = [calls EXCEPT ![p] =
                           Fail([IdleCall EXCEPT !.op = op, !.payerId = u],
                                "No document to update")]
  /\ UNCHANGED <<transactions, commits, serialBal, serialOk>>
  /\ UnchangedDomain

UpdateProfile(p) ==
  \E u \in UserIds, updates \in ProfileUpdates :
    UpdateProfileCall(p, "updateProfile", u, updates)

\* AuthProvider.updateWalletBalance(newBalance) of a signed-in user with a
\* loaded profile: updateProfile(user.uid, {walletBalance: newBalance})
UpdateWalletBalance(p) ==
  \E u \in UserIds, b \in NewBalances :
    /\ users[u].exists
    /\ UpdateProfileCall(p, "updateWalletBalance", u,
                         [walletBalance |-> b, wallet |-> "number"])

\* a caller invokes AuthService.grantAppPermission(adminId, userId, app)
InvokeGrantAppPermission(p) ==
  /\ CanStart(p)
  /\ \E adminId \in UserIds, u \in UserIds :
       calls' = [calls EXCEPT ![p] =
                   [IdleCall EXCEPT !.op = "grantAppPermission", !.pc = "getAdmin",
                                    !.uid = adminId, !.payerId = u]]
  /\ UnchangedLedger /\ UnchangedDomain

\* grantAppPermission: await getDoc(doc(db, 'users', adminId)) and the check
\* !adminDoc.exists() || adminDoc.data()?.role !== 'admin'
GetAdmin(p) ==
  LET c == calls[p] IN
  /\ c.pc = "getAdmin"
  /\ calls' = [calls EXCEPT ![p] =
                 IF ~users[c.uid].exists \/ RoleOf(c.uid) # "admin"
                 THEN Fail(c, "Unauthorized")
                 ELSE [c EXCEPT !.pc = "updatePermission"]]
  /\ UnchangedLedger /\ UnchangedDomain

\* grantAppPermission: await updateDoc(userRef, { permissions.<app>: true,
\* updatedAt }); updateDoc rejects when the document does not exist
UpdatePermission(p) ==
  LET c == calls[p] IN
  /\ c.pc = "updatePermission"
  /\ IF users[c.payerId].exists
       THEN /\ users' = UpdateUserDoc(users, c.payerId, NoFields)
            /\ calls' = [calls EXCEPT ![p] = Succeed(c)]
       ELSE /\ users' = users
            /\ calls' = [calls EXCEPT ![p] = Fail(c, "No document to update")]
  /\ UNCHANGED <<transactions, commits, serialBal, serialOk>>
  /\ UnchangedDomain

\* AuthService.grantAppPermission, one store round trip at a time
GrantAppPermission(p) ==
  InvokeGrantAppPermission(p) \/ GetAdmin(p) \/ UpdatePermission(p)

\* the wallet balance register gives a general user
WelcomeBonus == 100

RegisteredRoles == {"admin", "general_user"}

\* AuthService.register(email, password, profile, role): await
\* createUserWithEmailAndPassword, which makes an account under a uid that no
\* user has
InvokeRegister(p) ==
  /\ CanStart(p)
  /\ \E uid \in UserIds, role \in RegisteredRoles :
       /\ ~users[uid].exists
       /\ \A q \in Procs :
            ~(calls[q].op \in {"register", "signup"} /\ calls[q].payerId = uid)
       /\ calls' = [calls EXCEPT ![p] =
                      [IdleCall EXCEPT !.op = "register", !.pc = "setUserDoc",
                                       !.payerId = uid, !.args = <<role>>]]
  /\ UnchangedLedger /\ UnchangedDomain

\* register: await setDoc(doc(db, 'users', uid), userData), which replaces
\* the document
SetUserDoc(p) ==
  LET c == calls[p]
      role == c.args[1] IN
  /\ c.pc = "setUserDoc"
  /\ users' = [users EXCEPT ![c.payerId] =
                 [exists |-> TRUE, isActive |-> TRUE,
                  walletBalance |-> IF role = "general_user" THEN WelcomeBonus ELSE 0,
                  wallet |-> "number",
                  role |-> role, ver |-> users[c.payerId].ver + 1]]
  /\ calls' = [calls EXCEPT ![p] = Succeed(c)]
  /\ UNCHANGED <<transactions, commits, serialBal, serialOk>>
  /\ UnchangedDomain

\* AuthService.register, one round trip at a time
Register(p) == InvokeRegister(p) \/ SetUserDoc(p)

\* the roles the StockFlow signup accepts
SignupRoles == {"admin", "attendant"}

\* the user document the StockFlow AuthContext writes: { uid, email, role },
\* with no isActive and no walletBalance; setDoc replaces the document
BasicUser(role, ver) ==
  [exists |-> TRUE, isActive |-> FALSE, walletBalance |-> 0, wallet |-> "undefined",
   role |-> role, ver |-> ver]

\* AuthContext.signup(email, password, role): await
\* createUserWithEmailAndPassword, which makes an account under a uid that no
\* user has
InvokeSignup(p) ==
  /\ CanStart(p)
  /\ \E uid \in UserIds, role \in SignupRoles :
       /\ ~users[uid].exists
       /\ \A q \in Procs :
            ~(calls[q].op \in {"register", "signup"} /\ calls[q].payerId = uid)
       /\ calls' = [calls EXCEPT ![p] =
                      [IdleCall EXCEPT !.op = "signup", !.pc = "setSignupDoc",
                                       !.payerId = uid, !.args = <<role>>]]
  /\ UnchangedLedger /\ UnchangedDomain

\* signup: await setDoc(doc(db, 'users', uid), userData)
SetSignupDoc(p) ==
  LET c == calls[p] IN
  /\ c.pc = "setSignupDoc"
  /\ users' = [users EXCEPT ![c.payerId] = BasicUser(c.args[1], @.ver + 1)]
  /\ calls' = [calls EXCEPT ![p] = Succeed(c)]
  /\ UNCHANGED <<transactions, commits, serialBal, serialOk>>
  /\ UnchangedDomain

\* AuthContext.signup, one round trip at a time
Signup(p) == InvokeSignup(p) \/ SetSignupDoc(p)

\* the accounts that sign in to StockFlow
SignedInUsers == UserIds

\* the onAuthStateChanged listener is run for a signed-in account
InvokeAuthStateChanged(p) ==
  /\ CanStart(p)
  /\ \E uid \in SignedInUsers :
       calls' = [calls EXCEPT ![p] =
                   [IdleCall EXCEPT !.op = "onAuthStateChanged", !.pc = "getUserDoc",
                                    !.payerId = uid]]
  /\ UnchangedLedger /\ UnchangedDomain

\* the listener: await getDoc(doc(db, 'users', firebaseUser.uid)); with a
\* document it is done
GetUserDoc(p) ==
  LET c == calls[p] IN
  /\ c.pc = "getUserDoc"
  /\ calls' = [calls EXCEPT ![p] =
                 IF users[c.payerId].exists THEN Succeed(c)
                 ELSE [c EXCEPT !.pc = "setBasicUser"]]
  /\ UnchangedLedger /\ UnchangedDomain

\* the listener: await setDoc(doc(db, 'users', firebaseUser.uid), basicUser)
\* with role 'attendant', whatever the document holds by now
SetBasicUser(p) ==
  LET c == calls[p] IN
  /\ c.pc = "setBasicUser"
  /\ users' = [users EXCEPT ![c.payerId] = BasicUser("attendant", @.ver + 1)]
  /\ calls' = [calls EXCEPT ![p] = Succeed(c)]
  /\ UNCHANGED <<transactions, commits, serialBal, serialOk>>
  /\ UnchangedDomain

\* the onAuthStateChanged listener, one round trip at a time
OnAuthStateChanged(p) == InvokeAuthStateChanged(p) \/ GetUserDoc(p) \/ SetBasicUser(p)

NextProfile ==
  \E p \in Procs :
    \/ InvokeProcessPayment(p, ValidAmounts, DirectTypes)
    \/ LedgerStep(p)
    \/ UpdateProfile(p)
    \/ UpdateWalletBalance(p)
    \/ GrantAppPermission(p)
    \/ Register(p)
    \/ Signup(p)
    \/ OnAuthStateChanged(p)

SpecProfile == Init /\ [][NextProfile]_vars

\* requests for one invoice and one order, sent again and again by their customer
NextReplay ==
  \E p \in Procs :
    \/ InvokePayInvoice(p, {"i1"}, {"u1"})
    \/ InvokePayOrder(p, {"o1"}, {"u1"})
    \/ GetInvoice(p)
    \/ GetOrder(p)
    \/ GetCompany(p)
    \/ StockRead(p)
    \/ StockCommit(p)
    \/ LedgerStep(p)
    \/ MarkInvoicePaid(p)
    \/ MarkOrderPaid(p)

SpecReplay == Init /\ [][NextReplay]_vars

(* ------------------- InvoiceFlowSDK.createInvoice ---------------------- *)

\* values a caller may pass as paymentTransactionId (0: the field is left out)
PassedTransactionIds == {0, 1}

\* the invoice data (Omit<Invoice, 'id' | 'createdAt' | 'updatedAt'>) a caller
\* of createInvoice passes: the company "c9" has no document
CreatedInvoices ==
  [exists : {TRUE}, companyId : {"c1", "c9"}, total : {1, 7},
   status : InvoiceStatuses, pastDue : BOOLEAN,
   paymentTransactionId : PassedTransactionIds]

\* createInvoice(data): addDoc of the data as passed, under a fresh document id
CreateInvoice(p) ==
  /\ CanStart(p)
  /\ \E i \in InvoiceIds, data \in CreatedInvoices :
       /\ ~invoices[i].exists
       /\ invoices' = [invoices EXCEPT ![i] = data]
       /\ calls' = [calls EXCEPT ![p] =
                      Succeed([IdleCall EXCEPT !.op = "createInvoice", !.docId = i])]
  /\ UnchangedLedger /\ UNCHANGED <<orders, products, notifications, observed, companies>>

\* the company data (Omit<Company, 'id' | 'createdAt' | 'updatedAt'>) a caller
\* of createCompany passes: any user id as the owner
CreatedCompanies == [exists : {TRUE}, ownerId : UserIds]

\* PayFlowSDK.createCompany(data): addDoc of the data as passed, under a fresh
\* document id
CreateCompany(p) ==
  /\ CanStart(p)
  /\ \E co \in CompanyIds, data \in CreatedCompanies :
       /\ ~companies[co].exists
       /\ companies' = [companies EXCEPT ![co] = data]
       /\ calls' = [calls EXCEPT ![p] =
                      Succeed([IdleCall EXCEPT !.op = "createCompany", !.docId = co])]
  /\ UnchangedLedger
  /\ UNCHANGED <<invoices, orders, products, notifications, observed>>

\* companies and invoices created by the callers, and the invoices settled by a
\* customer
NextInvoiceDocs ==
  \E p \in Procs :
    \/ CreateCompany(p)
    \/ CreateInvoice(p)
    \/ InvokePayInvoice(p, InvoiceIds, {"u1"})
    \/ GetInvoice(p)
    \/ GetCompany(p)
    \/ LedgerStep(p)
    \/ MarkInvoicePaid(p)

SpecInvoiceDocs == Init /\ [][NextInvoiceDocs]_vars

(* ---------------- processMoMoPayment and momoWebhook ------------------- *)

\* the reference generated for the request handled in slot p: MOMO<time><random>
MomoReferences == <<"m1", "m2", "m3", "m4">>
MomoReference(p) == MomoReferences[p]

\* references a provider callback may carry; "m0" is the reference a direct
\* caller of processPayment passes, "unknown" matches no transaction, "absent":
\* the body has no reference
WebhookReferences == {MomoReference(q) : q \in Procs} \cup {"m0", "unknown", "absent"}
WebhookStatuses == {"SUCCESSFUL", "FAILED"}

\* the userId of a request body ("absent": the field is missing) and its
\* phoneNumber: missing, not matching /^(\+268|268|0)?[67]\d{7}$/, or matching
MomoUsers == UserIds \cup {"absent"}
MomoPhones == {"absent", "invalid", "valid"}

\* amounts of the requests: those of the other callers, and 0 (or none)
MomoAmounts == Amounts \cup {0}

\* processMoMoPayment: the request is validated and a reference is generated
InvokeProcessMoMoPayment(p, amts) ==
  /\ CanStart(p)
  /\ \E user \in MomoUsers, amt \in amts, phone \in MomoPhones :
       LET c == [IdleCall EXCEPT !.op = "processMoMoPayment",
                                 !.payerId = IF user = "absent" THEN "none" ELSE user,
                                 !.docId = MomoReference(p)] IN
       calls' = [calls EXCEPT ![p] =
                   IF phone = "absent" \/ amt = 0 \/ user = "absent"
                   THEN Fail(c, "Missing required fields")
                   ELSE IF phone # "valid"
                   THEN Fail(c, "Invalid Eswatini phone number format")
                   ELSE [c EXCEPT !.pc = "simulate", !.receiverId = user,
                                  !.amount = amt, !.type = "wallet_topup"]]
  /\ UnchangedLedger /\ UnchangedDomain

\* await simulateMoMoPayment(...): the provider accepts or declines; on success
\* the handler calls topUpWallet(userId, amount, 'momo', { momoReference })
SimulateMoMoPayment(p) ==
  LET c == calls[p] IN
  /\ c.pc = "simulate"
  /\ \E accepted \in BOOLEAN :
       calls' = [calls EXCEPT ![p] =
                   IF accepted
                   THEN [c EXCEPT !.pc = "readPayer",
                                  !.metadata =
                                    TopUpMetadata("momo",
                                                  [NoMetadata EXCEPT
                                                     !.momoReference = c.docId])]
                   ELSE Fail(c, "Payment declined by MoMo service")]
  /\ UnchangedLedger /\ UnchangedDomain

\* where('metadata.momoReference', '==', reference): the transactions the query
\* matches
MomoTransaction(reference) ==
  {t \in 1..Len(transactions) : transactions[t].momoReference = reference}

\* momoWebhook receives an event { reference, status }: a query on an undefined
\* reference throws before the store is asked, and the catch answers 500 'Error'
InvokeMomoWebhook(p) ==
  /\ CanStart(p)
  /\ \E reference \in WebhookReferences, status \in WebhookStatuses :
       LET c == [IdleCall EXCEPT !.op = "momoWebhook", !.docId = reference,
                                 !.args = <<status>>] IN
       calls' = [calls EXCEPT ![p] =
                   IF reference = "absent"
                   THEN Fail(c, "Error")
                   ELSE [c EXCEPT !.pc = "findTransaction"]]
  /\ UnchangedLedger /\ UnchangedDomain

\* momoWebhook: await the query for the transaction carrying the reference;
\* with none the handler answers 200 'OK'.  limit(1) answers the matching
\* document with the smallest id, and the ids are the random ones of
\* doc(collection(db, 'transactions')): any of the matching transactions
FindMomoTransaction(p) ==
  LET c == calls[p]
      found == MomoTransaction(c.docId) IN
  /\ c.pc = "findTransaction"
  /\ IF found = {}
     THEN calls' = [calls EXCEPT ![p] = Succeed(c)]
     ELSE \E t \in found :
            calls' = [calls EXCEPT ![p] =
                        [c EXCEPT !.pc = "updateStatus", !.transactionId = t]]
  /\ UnchangedLedger /\ UnchangedDomain

\* momoWebhook: await transactionDoc.ref.update({ status, updatedAt }); when the
\* store rejects the write the catch answers 500 'Error'
UpdateMomoStatus(p) ==
  LET c == calls[p] IN
  /\ c.pc = "updateStatus"
  /\ \E written \in BOOLEAN :
       IF written
       THEN /\ transactions' =
                 [transactions EXCEPT ![c.transactionId].status =
                    IF c.args = <<"SUCCESSFUL">> THEN "completed" ELSE "failed"]
            /\ calls' = [calls EXCEPT ![p] = [c EXCEPT !.pc = "notify"]]
       ELSE /\ transactions' = transactions
            /\ calls' = [calls EXCEPT ![p] = Fail(c, "Error")]
  /\ UNCHANGED <<users, commits, serialBal, serialOk>>
  /\ UnchangedDomain

\* the type a caller passes to sendPaymentNotification: momoWebhook passes
\* status === 'SUCCESSFUL' ? 'success' : 'failed', the integration service
\* 'success'
NotificationType(c) ==
  IF c.op = "momoWebhook" /\ c.args # <<"SUCCESSFUL">> THEN "failed" ELSE "success"

\* the notification sendPaymentNotification adds for transaction t: to its payer
PaymentNotification(t, kind) ==
  [userId |-> transactions[t].payerId, kind |-> kind, transactionId |-> t,
   docId |-> "none"]

AfterNotificationPropagated(c, recorded) ==
  IF recorded THEN Succeed(c) ELSE Fail(c, "Payment processing failed")

\* sendPaymentNotification catches whatever it throws; its caller goes on to
\* return { success: true, transactionId } (the integration service) or 200
\* 'OK' (momoWebhook)
AfterNotification(c, recorded) == Succeed(c)

\* sendPaymentNotification: await getDoc(transactionRef); it throws
\* 'Transaction not found', into its own catch, when there is no such document
GetNotifiedTransaction(p) ==
  LET c == calls[p] IN
  /\ c.pc = "notify"
  /\ calls' = [calls EXCEPT ![p] =
                 IF c.transactionId \notin 1..Len(transactions)
                 THEN AfterNotification(c, FALSE)
                 ELSE [c EXCEPT !.pc = "addNotification"]]
  /\ UnchangedLedger /\ UnchangedDomain

\* sendPaymentNotification: await addDoc(collection(db, 'notifications'), ...);
\* the write to the store may be rejected
AddPaymentNotification(p) ==
  LET c == calls[p] IN
  /\ c.pc = "addNotification"
  /\ \E recorded \in BOOLEAN :
       /\ notifications' =
            IF recorded
            THEN Append(notifications,
                        PaymentNotification(c.transactionId, NotificationType(c)))
            ELSE notifications
       /\ calls' = [calls EXCEPT ![p] = AfterNotification(c, recorded)]
  /\ UnchangedLedger /\ UNCHANGED <<invoices, orders, products, companies, observed>>

\* PayFlowSDK.sendPaymentNotification(transactionId, type), one store round trip
\* at a time
SendPaymentNotification(p) == GetNotifiedTransaction(p) \/ AddPaymentNotification(p)

\* the momoWebhook handler, one store round trip at a time
MomoWebhook(p) ==
  \/ InvokeMomoWebhook(p)
  \/ FindMomoTransaction(p)
  \/ UpdateMomoStatus(p)
  \/ SendPaymentNotification(p)

\* the accounts of the direct top-ups and the metadata they pass: a provider
\* reference of their own
DirectTopUpUsers == {"u1", "u2"}
DirectTopUpMetadata == {[paymentMethod |-> "momo", momoReference |-> "m0"]}

\* the MoMo handlers, next to direct wallet_topup calls of processPayment that
\* carry a provider reference
NextMoMo ==
  \E p \in Procs :
    \/ InvokeProcessMoMoPayment(p, MomoAmounts)
    \/ InvokeProcessPaymentBetween(p, DirectTopUpUsers, DirectTopUpUsers, ValidAmounts,
                                   {"wallet_topup"}, PassedCompanyIds,
                                   DirectTopUpMetadata)
    \/ SimulateMoMoPayment(p)
    \/ LedgerStep(p)
    \/ MomoWebhook(p)

SpecMoMo == Init /\ [][NextMoMo]_vars

(* ------------------------ IntegrationService --------------------------- *)

\* IntegrationService.processInvoicePayment(invoiceId, payerEmail)
InvokeProcessInvoicePayment(p, invs, emails) ==
  /\ CanStart(p)
  /\ \E inv \in invs, email \in emails :
       calls' = [calls EXCEPT ![p] =
                   [IdleCall EXCEPT !.op = "payInvoice", !.via = "integration",
                                    !.pc = "payerLookup", !.payerEmail = email,
                                    !.docId = inv, !.type = "invoice_payment"]]
  /\ UnchangedLedger /\ UnchangedDomain

\* IntegrationService.processOrderPayment(orderId, payerEmail)
InvokeProcessOrderPayment(p, ords, emails) ==
  /\ CanStart(p)
  /\ \E ord \in ords, email \in emails :
       calls' = [calls EXCEPT ![p] =
                   [IdleCall EXCEPT !.op = "payOrder", !.via = "integration",
                                    !.pc = "payerLookup", !.payerEmail = email,
                                    !.docId = ord, !.type = "product_purchase"]]
  /\ UnchangedLedger /\ UnchangedDomain

\* createInvoicePaymentLink / createOrderPaymentLink:
\* `${baseUrl}/pay/invoice/${invoiceId}`, `${baseUrl}/pay/order/${orderId}`
PaymentLink(c) ==
  [kind |-> IF c.op = "payInvoice" THEN "invoice" ELSE "order", id |-> c.docId]

PayerUnknownUnchecked(payer) == FALSE

\* processInvoicePayment, processOrderPayment: if (!payer)
PayerUnknown(payer) == payer = "none" \/ ~users[payer].exists

\* await getUserByEmail(payerEmail): with no payer the payment link is returned,
\* with one the call goes on as payInvoice / payOrder(id, payer.id)
PayerLookup(p) ==
  LET c == calls[p]
      payer == UserOfEmail(c.payerEmail) IN
  /\ c.pc = "payerLookup"
  /\ calls' = [calls EXCEPT ![p] =
                 IF PayerUnknown(payer)
                 THEN Fail([c EXCEPT !.paymentLink = PaymentLink(c)],
                           "Customer needs to register in PayFlow first")
                 ELSE [c EXCEPT !.payerId = payer,
                                !.pc = IF c.op = "payInvoice" THEN "getInvoice"
                                       ELSE "getOrder"]]
  /\ UnchangedLedger /\ UnchangedDomain

\* the documents and the emails the integration calls are about
IntegrationInvoices == {"i1"}
IntegrationOrders == {"o1"}

NextIntegration ==
  \E p \in Procs :
    \/ InvokeProcessInvoicePayment(p, IntegrationInvoices, Emails)
    \/ InvokeProcessOrderPayment(p, IntegrationOrders, Emails)
    \/ PayerLookup(p)
    \/ GetInvoice(p)
    \/ GetOrder(p)
    \/ GetCompany(p)
    \/ StockRead(p)
    \/ StockCommit(p)
    \/ LedgerStep(p)
    \/ MarkInvoicePaid(p)
    \/ MarkOrderPaid(p)
    \/ SendPaymentNotification(p)

SpecIntegration == Init /\ [][NextIntegration]_vars

(* -------------------- triggers on the document store ------------------- *)

\* a notification document added by a trigger
TriggerNotification(user, kind, t, document) ==
  [userId |-> user, kind |-> kind, transactionId |-> t, docId |-> document]

\* onTransactionCreated: the receiver is notified of an invoice_payment and of a
\* product_purchase; for the other types nothing is added
TransactionNotifications(n) ==
  LET t == transactions[n] IN
  IF t.type = "invoice_payment"
  THEN << TriggerNotification(t.receiverId, "Invoice Payment Received", n, t.ref) >>
  ELSE IF t.type = "product_purchase"
  THEN << TriggerNotification(t.receiverId, "Order Payment Received", n, t.ref) >>
  ELSE << >>

\* onDocumentCreated('transactions/{transactionId}'): run once for each created
\* transaction, in the order of creation; when the store rejects the add of the
\* notification the catch of the handler logs the error and the handler returns
OnTransactionCreated ==
  LET n == observed.tx + 1 IN
  /\ n <= Len(transactions)
  /\ \E recorded \in BOOLEAN :
       notifications' =
         IF recorded THEN notifications \o TransactionNotifications(n)
         ELSE notifications
  /\ observed' = [observed EXCEPT !.tx = n]
  /\ UNCHANGED <<users, transactions, invoices, orders, products, companies, calls, commits,
                 serialBal, serialOk>>

\* the call companyDoc.exists() on the snapshot the Admin SDK returned: exists is
\* a boolean property of that snapshot, so calling it throws a TypeError for a
\* company with a document and for one without, and the handler's catch logs it
ExistsCallThrows == TRUE

\* onInvoiceStatusChanged / onOrderStatusChanged, after the test
\* before.status !== 'paid' && after.status === 'paid': the company is read, and
\* its owner is notified when the guard companyDoc.exists() passes; the guard
\* throws, so what the handler writes is nothing
StatusNotifications(companyId, title, document) ==
  IF ~ExistsCallThrows /\ companies[companyId].exists
  THEN << TriggerNotification(companies[companyId].ownerId, title, 0, document) >>
  ELSE << >>

\* the observers' test on an update event:
\* before.status !== 'paid' && after.status === 'paid'
BecamePaid(before, after) == before # "paid" /\ after = "paid"

\* onDocumentUpdated('invoices/{invoiceId}') for the update that made the
\* invoice paid
OnInvoiceStatusChanged ==
  \E i \in InvoiceIds :
    /\ BecamePaid(InitInvoices[i].status, invoices[i].status)
    /\ i \notin observed.invoices
    /\ notifications' =
         notifications \o StatusNotifications(invoices[i].companyId, "Invoice Paid",
                                              i)
    /\ observed' = [observed EXCEPT !.invoices = @ \cup {i}]
    /\ UNCHANGED <<users, transactions, invoices, orders, products, companies, calls, commits,
                   serialBal, serialOk>>

\* onDocumentUpdated('orders/{orderId}') for the update that made the order paid
OnOrderStatusChanged ==
  \E o \in OrderIds :
    /\ BecamePaid(InitOrders[o].status, orders[o].status)
    /\ o \notin observed.orders
    /\ notifications' =
         notifications \o StatusNotifications(orders[o].companyId, "Order Paid",
                                              o)
    /\ observed' = [observed EXCEPT !.orders = @ \cup {o}]
    /\ UNCHANGED <<users, transactions, invoices, orders, products, companies, calls, commits,
                   serialBal, serialOk>>

\* an update event of a document: the status before and after it (the same
\* status on both sides: the update wrote other fields only)
InvoiceUpdates ==
  {<<before, after>> : before \in InvoiceStatuses, after \in InvoiceStatuses}
OrderUpdates ==
  {<<before, after>> : before \in OrderStatuses, after \in OrderStatuses}

\* a status observer run on one update event of a document of company c1: the
\* notification is written under the observers' test only
StatusObserverRun(p, op, title, document, updates) ==
  /\ CanStart(p)
  /\ \E update \in updates :
       /\ notifications' =
            IF BecamePaid(update[1], update[2])
            THEN notifications \o StatusNotifications("c1", title, document)
            ELSE notifications
       /\ calls' = [calls EXCEPT ![p] =
                      [IdleCall EXCEPT !.op = op, !.pc = "done", !.docId = document,
                                       !.args = update]]
  /\ UnchangedLedger
  /\ UNCHANGED <<invoices, orders, products, companies, observed>>

\* onInvoiceStatusChanged on an update event of invoice i1
InvoiceUpdateObserved(p) ==
  StatusObserverRun(p, "onInvoiceStatusChanged", "Invoice Paid", "i1", InvoiceUpdates)

\* onOrderStatusChanged on an update event of order o1
OrderUpdateObserved(p) ==
  StatusObserverRun(p, "onOrderStatusChanged", "Order Paid", "o1", OrderUpdates)

NextObservers ==
  \E p \in Procs :
    \/ InvoiceUpdateObserved(p)
    \/ OrderUpdateObserved(p)

SpecObservers == Init /\ [][NextObservers]_vars

\* the documents settled under the triggers
NotifiedInvoices == {"i1"}
NotifiedOrders == {"o1"}

NextNotifier ==
  \/ \E p \in Procs :
       \/ InvokeProcessPayment(p, ValidAmounts, {"transfer"})
       \/ InvokeTopUpWallet(p, ValidAmounts, {"momo"}, {NoMetadata})
       \/ InvokePayInvoice(p, NotifiedInvoices, {"u1"})
       \/ InvokePayOrder(p, NotifiedOrders, {"u1"})
       \/ GetInvoice(p)
       \/ GetOrder(p)
       \/ GetCompany(p)
       \/ StockRead(p)
       \/ StockCommit(p)
       \/ LedgerStep(p)
       \/ MarkInvoicePaid(p)
       \/ MarkOrderPaid(p)
  \/ OnTransactionCreated
  \/ OnInvoiceStatusChanged
  \/ OnOrderStatusChanged

SpecNotifier == Init /\ [][NextNotifier]_vars

(* ------------------------- the whole core ------------------------------ *)

Next ==
  \E p \in Procs :
    \/ InvokeProcessPayment(p, Amounts, DirectTypes)
    \/ InvokeTopUpWallet(p, Amounts, {"momo"}, {NoMetadata})
    \/ InvokeTransferMoney(p, Amounts)
    \/ InvokePayInvoice(p, InvoiceIds, UserIds)
    \/ InvokePayOrder(p, OrderIds, UserIds)
    \/ TransferMoneyLookup(p)
    \/ GetInvoice(p)
    \/ GetOrder(p)
    \/ GetCompany(p)
    \/ StockRead(p)
    \/ StockCommit(p)
    \/ LedgerStep(p)
    \/ MarkInvoicePaid(p)
    \/ MarkOrderPaid(p)

Spec == Init /\ [][Next]_vars

\* the same core when every caller passes an amount the validation accepts
NextValidAmounts ==
  \E p \in Procs :
    \/ InvokeProcessPayment(p, ValidAmounts, DirectTypes)
    \/ InvokeTopUpWallet(p, ValidAmounts, {"momo"}, {NoMetadata})
    \/ InvokeTransferMoney(p, ValidAmounts)
    \/ InvokePayInvoice(p, InvoiceIds, UserIds)
    \/ InvokePayOrder(p, OrderIds, UserIds)
    \/ TransferMoneyLookup(p)
    \/ GetInvoice(p)
    \/ GetOrder(p)
    \/ GetCompany(p)
    \/ StockRead(p)
    \/ StockCommit(p)
    \/ LedgerStep(p)
    \/ MarkInvoicePaid(p)
    \/ MarkOrderPaid(p)

SpecValidAmounts == Init /\ [][NextValidAmounts]_vars

(* ============================ properties =============================== *)

RECURSIVE SumOver(_, _)
SumOver(S, f) ==
  IF S = {} THEN 0
  ELSE LET x == CHOOSE y \in S : TRUE IN f[x] + SumOver(S \ {x}, f)

Balance == [u \in UserIds |-> users[u].walletBalance]
InitBalance == [u \in UserIds |-> InitUsers[u].walletBalance]

TxIds == 1..Len(transactions)

\* the sum of the amounts of the committed wallet_topup transfers
ToppedUp ==
  SumOver(TxIds, [i \in TxIds |->
                    IF transactions[i].type = "wallet_topup"
                    THEN transactions[i].amount ELSE 0])

Done(p) == calls[p].pc = "done"
AllDone == \A p \in Procs : calls[p].op = "idle" \/ Done(p)
Started == {p \in Procs : calls[p].op # "idle"}

\* C1: conservation: the sum of all wallet balances is the initial sum plus the
\* amounts of the committed wallet_topup transfers, whoever pays whom (payer =
\* receiver included).
C1_Conservation ==
  SumOver(UserIds, Balance) = SumOver(UserIds, InitBalance) + ToppedUp

\* C2: no account's walletBalance is ever negative, whatever amounts are passed.
C2_NoNegativeBalance ==
  \A u \in UserIds : users[u].walletBalance >= 0

\* payers that can afford a total from their initial balance
CanAfford(u, total) ==
  InitUsers[u].exists /\ InitUsers[u].isActive /\ InitUsers[u].walletBalance >= total

InvoiceCalls(i) == {p \in Procs : calls[p].op = "payInvoice" /\ calls[p].docId = i}
InvoiceTx(i) ==
  {t \in TxIds : transactions[t].type = "invoice_payment" /\ transactions[t].ref = i
                 /\ transactions[t].status = "completed"}

\* C3: at most one settlement of an invoice: at no time do two completed
\* transactions reference the same invoice, and once N >= 2 calls of payInvoice on
\* one unpaid invoice by payers with sufficient balance have all returned, exactly
\* one has succeeded and the others have failed as already paid.
C3_AtMostOneInvoiceSettlement ==
  \A i \in InvoiceIds :
    /\ Cardinality(InvoiceTx(i)) <= 1
    /\ ( /\ Cardinality(InvoiceCalls(i)) >= 2
         /\ \A p \in InvoiceCalls(i) :
              Done(p) /\ CanAfford(calls[p].payerId, InitInvoices[i].total) )
       => /\ Cardinality({p \in InvoiceCalls(i) : calls[p].success}) = 1
          /\ \A p \in InvoiceCalls(i) :
               ~calls[p].success => calls[p].error = "Invoice already paid"

\* a transfer fully applied to balances b: the payer debited (unless a top-up),
\* then the receiver credited
FullyApplied(b, t) ==
  LET debited == IF t.type # "wallet_topup"
                 THEN [b EXCEPT ![t.payerId] = @ - t.amount]
                 ELSE b
  IN [debited EXCEPT ![t.receiverId] = @ + t.amount]

\* C4: atomic transfer: every step either leaves the balances and the
\* transaction records alone or applies one transfer in full (payer debited unless
\* wallet_topup, receiver credited, one completed record inserted), and the number
\* of records is the number of committed transfers.
C4_AtomicTransfer ==
  /\ [](Len(transactions) = commits)
  /\ [][ \/ /\ Balance' = Balance
            /\ transactions' = transactions
         \/ /\ Len(transactions') = Len(transactions) + 1
            /\ SubSeq(transactions', 1, Len(transactions)) = transactions
            /\ transactions'[Len(transactions')].status = "completed"
            /\ Balance' = FullyApplied(Balance, transactions'[Len(transactions')])
            /\ commits' = commits + 1 ]_vars

LedgerPcs == {"readPayer", "readReceiver", "commit"}

\* a precondition of the transfer does not hold of the accounts as they are now
PreconditionViolated(c) ==
  \/ ~users[c.payerId].exists
  \/ ~users[c.receiverId].exists
  \/ ~users[c.payerId].isActive
  \/ ~users[c.receiverId].isActive
  \/ (c.type # "wallet_topup" /\ users[c.payerId].walletBalance < c.amount)

\* C5: a processPayment call whose payer or receiver does not exist or is
\* inactive, or whose payer balance is below the amount (except wallet_topup),
\* creates no transaction and changes no balance in any step it takes, and if the step
\* ends the call it ends it with a failure result.
C5_FailedPaymentNoEffect ==
  [][ \A p \in Procs :
        ( /\ calls[p].pc \in LedgerPcs
          /\ calls'[p] # calls[p]
          /\ PreconditionViolated(calls[p]) )
        => /\ users' = users
           /\ transactions' = transactions
           /\ calls'[p].transactionId = 0
           /\ calls'[p].pc # "markPaid"
           /\ (calls'[p].pc = "done" => ~calls'[p].success) ]_vars

\* reached: two processPayment calls have failed, one on a missing payer and one on
\* an insufficient balance, and nothing was written
C5_Witness ==
  /\ \E p \in Procs : Done(p) /\ calls[p].error = "Payer not found"
  /\ \E p \in Procs : Done(p) /\ calls[p].error = "Insufficient wallet balance"
  /\ users = InitUsers /\ transactions = << >>

\* quantity of product q ordered by order o, over all its line items
OrderQty(o, q) ==
  LET items == OrderItems(o)
      idx == 1..Len(items) IN
  SumOver(idx, [k \in idx |-> IF items[k].productId = q THEN items[k].quantity ELSE 0])

\* stock of product q taken by the calls in set S
StockTaken(S, q) == SumOver(S, [p \in S |-> OrderQty(calls[p].docId, q)])

\* payOrder calls whose stock transaction has committed
StockCalls == {p \in Procs : calls[p].op = "payOrder" /\ calls[p].stockDone}
\* ... and that have not returned a failure
StockKeepers == {p \in StockCalls : ~(Done(p) /\ ~calls[p].success)}

\* C6: a payOrder whose ledger transfer fails leaves no trace: the stock it took
\* before the transfer is given back (the quantities account for the calls that
\* have not failed only), and when every call has returned a failure the
\* balances, the quantities and the orders are as they were.
C6_FailedTransferRestoresStock ==
  /\ \A q \in ProductIds :
       products[q].quantity = InitProducts[q].quantity - StockTaken(StockKeepers, q)
  /\ (AllDone /\ \A p \in Started : ~calls[p].success)
       => /\ Balance = InitBalance
          /\ \A q \in ProductIds : products[q].quantity = InitProducts[q].quantity
          /\ orders = InitOrders

\* the errors that end a stock transaction before its commit
StockRejections == {"Insufficient stock", ReadsBeforeWrites}

\* C7: an order with a line item asking for more than the product has fails as a
\* whole: a stock transaction commits only when every line item is covered by the
\* quantity the product has then; the quantities change by whole committed stock
\* transactions only (never by the earlier lines of a rejected one); a call whose
\* stock transaction was rejected has failed with no stock taken and no
\* transaction; and while no stock transaction has committed, no balance,
\* transaction record, order or quantity has changed.
C7_InsufficientStockFailsEntirely ==
  /\ [](\A q \in ProductIds :
          products[q].quantity = InitProducts[q].quantity - StockTaken(StockCalls, q))
  /\ [](StockCalls = {}
          => /\ users = InitUsers /\ transactions = << >>
             /\ orders = InitOrders /\ products = InitProducts)
  /\ [](\A p \in Procs :
          (Done(p) /\ calls[p].error \in StockRejections)
            => ~calls[p].success /\ ~calls[p].stockDone /\ calls[p].transactionId = 0)
  /\ [][ \A p \in Procs :
           (calls'[p].stockDone /\ ~calls[p].stockDone)
           => \A k \in 1..Len(OrderItems(calls[p].docId)) :
                products[OrderItems(calls[p].docId)[k].productId].quantity
                  >= OrderItems(calls[p].docId)[k].quantity ]_vars

\* reached: a call on the order o10, whose one line asks two units of p2 where
\* one is in stock, was rejected by the stock check, a call on the two-line order
\* o2 (one unit of p1, covered, then two units of p2) was rejected at the read of
\* its second line, and nothing has changed
C7_Witness ==
  \E p \in Procs, r \in Procs :
    /\ Done(p) /\ calls[p].docId = "o10" /\ calls[p].error = "Insufficient stock"
    /\ Done(r) /\ calls[r].docId = "o2" /\ calls[r].error = ReadsBeforeWrites
    /\ calls[p].payerId = "u1" /\ calls[r].payerId = "u1"
    /\ products = InitProducts /\ users = InitUsers
    /\ transactions = << >> /\ orders = InitOrders

\* orders of one unit of p2, the product with quantity 1
OneUnitOrders == {"o3", "o4"}

\* C8: the quantity of a product is never negative under concurrent payOrder
\* calls; and when exactly two calls, by payers who can afford it, each order one
\* unit of the product with quantity 1, exactly one succeeds and the quantity ends
\* at 0.
C8_StockNeverNegative ==
  /\ \A q \in ProductIds : products[q].quantity >= 0
  /\ \A p, r \in Procs :
       ( /\ p # r /\ Started = {p, r}
         /\ Done(p) /\ Done(r)
         /\ calls[p].op = "payOrder" /\ calls[r].op = "payOrder"
         /\ calls[p].docId \in OneUnitOrders /\ calls[r].docId \in OneUnitOrders
         /\ CanAfford(calls[p].payerId, InitOrders[calls[p].docId].total)
         /\ CanAfford(calls[r].payerId, InitOrders[calls[r].docId].total) )
       => /\ calls[p].success # calls[r].success
          /\ products["p2"].quantity = 0

\* reached: two calls on different orders of one unit of p2 have returned, one
\* with a transaction and one rejected for stock
C8_Witness ==
  \E p, r \in Procs :
    /\ Done(p) /\ Done(r)
    /\ calls[p].docId = "o3" /\ calls[r].docId = "o4"
    /\ calls[p].payerId = "u1" /\ calls[r].payerId = "u1"
    /\ calls[p].success /\ calls[r].error = "Insufficient stock"
    /\ products["p2"].quantity = 0

OrderCalls(o) == {p \in Procs : calls[p].op = "payOrder" /\ calls[p].docId = o}
OrderTx(o) ==
  {t \in TxIds : transactions[t].type = "product_purchase" /\ transactions[t].ref = o
                 /\ transactions[t].status = "completed"}

\* C9: at most one settlement of an order: at most one payOrder call on it
\* succeeds, at most one completed product_purchase transaction references it, and
\* its products are decremented for one settlement only.
C9_AtMostOneOrderSettlement ==
  \A o \in OrderIds :
    /\ Cardinality({p \in OrderCalls(o) : calls[p].success}) <= 1
    /\ Cardinality(OrderTx(o)) <= 1
    /\ \A q \in ProductIds :
         StockTaken({p \in OrderCalls(o) : calls[p].success}, q) <= OrderQty(o, q)

\* C10: linearizability of transfers: the balances are those the committed
\* processPayment calls produce when run one at a time in commit order, each of
\* them succeeding in that order, with one record per committed call.
C10_Linearizable ==
  /\ serialOk
  /\ Balance = serialBal
  /\ Len(transactions) = commits

\* reached: one transfer out of u1 has committed while another call paying from u1
\* had read the account, and that call was sent back to run again
C10_Witness ==
  \E p, r \in Procs :
    /\ p # r
    /\ Done(p) /\ calls[p].success /\ calls[p].payerId = "u1"
    /\ calls[r].payerId = "u1" /\ calls[r].pc = "readPayer" /\ calls[r].attempts = 1
    /\ commits = 1

\* C11: every transfer requires amount > 0: a processPayment or topUpWallet call
\* with amount <= 0 fails and writes nothing, so every transaction record in the
\* ledger has amount > 0.
C11_PositiveAmounts ==
  \A t \in TxIds : transactions[t].amount > 0

\* the total of the invoice or order a settlement call is about, and the owner
\* of the company that issued it
DocTotal(c) ==
  IF c.op = "payInvoice" THEN InitInvoices[c.docId].total ELSE InitOrders[c.docId].total
DocOwner(c) ==
  InitCompanies[IF c.op = "payInvoice" THEN InitInvoices[c.docId].companyId
                ELSE InitOrders[c.docId].companyId].ownerId

\* the step in which the transfer of settlement call p commits: one completed
\* record of the document's total from the payer to the owner, and the balances
\* moved by exactly that
SettlementTransfer(p, type) ==
  LET c == calls[p]
      t == transactions'[Len(transactions')] IN
  /\ Len(transactions') = Len(transactions) + 1
  /\ SubSeq(transactions', 1, Len(transactions)) = transactions
  /\ t.status = "completed" /\ t.type = type /\ t.ref = c.docId
  /\ t.amount = DocTotal(c)
  /\ t.payerId = c.payerId /\ t.receiverId = DocOwner(c)
  /\ calls'[p].transactionId = t.id
  /\ Balance' = FullyApplied(Balance, t)

\* C12: a successful payInvoice decreases the payer's balance by exactly
\* invoice.total, increases the company owner's balance by exactly invoice.total,
\* creates exactly one completed invoice_payment transaction of that amount
\* referencing the invoice, and returns leaving the invoice paid with
\* paymentTransactionId equal to the returned transaction id.
C12_PayInvoiceEffect ==
  [][ \A p \in Procs :
        (calls[p].op = "payInvoice" /\ calls'[p] # calls[p]) =>
          /\ (calls'[p].pc = "markPaid") => SettlementTransfer(p, "invoice_payment")
          /\ (calls'[p].pc = "done" /\ calls'[p].success) =>
               /\ calls[p].pc = "markPaid"
               /\ calls'[p].transactionId = calls[p].transactionId
               /\ invoices'[calls[p].docId].status = "paid"
               /\ invoices'[calls[p].docId].paymentTransactionId = calls[p].transactionId
               /\ users' = users /\ transactions' = transactions ]_vars

\* C13: a successful payOrder moves exactly order.total from the payer to the
\* order's company owner, creates exactly one completed product_purchase
\* transaction referencing the order, and returns that transaction's id leaving
\* the order paid with paymentTransactionId equal to it.
C13_PayOrderEffect ==
  [][ \A p \in Procs :
        (calls[p].op = "payOrder" /\ calls'[p] # calls[p]) =>
          /\ (calls'[p].pc = "markPaid") => SettlementTransfer(p, "product_purchase")
          /\ (calls'[p].pc = "done" /\ calls'[p].success) =>
               /\ calls[p].pc = "markPaid"
               /\ calls'[p].transactionId = calls[p].transactionId
               /\ orders'[calls[p].docId].status = "paid"
               /\ orders'[calls[p].docId].paymentTransactionId = calls[p].transactionId
               /\ users' = users /\ transactions' = transactions ]_vars

\* C14: after a successful payOrder every product's quantity has decreased by
\* exactly the total quantity the order asks of it over all its line items (a
\* product listed in two line items included) and the other products are
\* unchanged; and a stock transaction commits only when that total is covered by
\* the quantity the product has, and takes exactly that total.
C14_StockDecrementByOrderTotal ==
  /\ [](\A p \in Procs :
          (Started = {p} /\ Done(p) /\ calls[p].op = "payOrder" /\ calls[p].success)
          => \A q \in ProductIds :
               products[q].quantity =
                 InitProducts[q].quantity - OrderQty(calls[p].docId, q))
  /\ [][ \A p \in Procs :
           (calls'[p].stockDone /\ ~calls[p].stockDone)
           => \A q \in ProductIds :
                /\ products[q].quantity >= OrderQty(calls[p].docId, q)
                /\ products'[q].quantity =
                     products[q].quantity - OrderQty(calls[p].docId, q) ]_vars

\* reached: a call on o5, which lists p1 in two line items, was rejected at the
\* read of its second line with no stock taken, and a call on the one-line order
\* o1 has succeeded: p1 is down by the one unit o1 asks and p2 is as it was
C14_Witness ==
  \E p \in Procs, r \in Procs :
    /\ Done(r) /\ calls[r].docId = "o5" /\ calls[r].error = ReadsBeforeWrites
    /\ ~calls[r].stockDone
    /\ Done(p) /\ calls[p].op = "payOrder" /\ calls[p].docId = "o1" /\ calls[p].success
    /\ products["p1"].quantity = InitProducts["p1"].quantity - OrderQty("o1", "p1")
    /\ products["p2"].quantity = InitProducts["p2"].quantity
    /\ orders["o1"].status = "paid" /\ orders["o5"].status = "pending"

\* C15: transaction immutability: once a transaction record has status
\* completed no later operation changes any of its fields, its status included,
\* whatever status the momoWebhook handler receives for its provider reference.
C15_CompletedTransactionImmutable ==
  [][ \A t \in TxIds :
        transactions[t].status = "completed"
        => /\ t <= Len(transactions')
           /\ transactions'[t] = transactions[t] ]_vars

\* C16: in every reachable state and for every invoice, paymentTransactionId is
\* set if and only if the invoice's status is paid.
C16_PaymentIdIffPaid ==
  \A i \in InvoiceIds :
    invoices[i].exists
    => ((invoices[i].paymentTransactionId # 0) <=> (invoices[i].status = "paid"))

\* C17: idempotent mark-paid patch: a step taken while an invoice or an order is
\* in status paid (the mark-paid write of a second racing or replayed settlement
\* included) leaves its status and its paymentTransactionId as they are.
C17_MarkPaidIdempotent ==
  [][ /\ \A i \in InvoiceIds :
           invoices[i].status = "paid"
           => /\ invoices'[i].status = "paid"
              /\ invoices'[i].paymentTransactionId = invoices[i].paymentTransactionId
      /\ \A o \in OrderIds :
           orders[o].status = "paid"
           => /\ orders'[o].status = "paid"
              /\ orders'[o].paymentTransactionId = orders[o].paymentTransactionId ]_vars

\* C18: payInvoice on an invoice that is cancelled, or whose due date has passed,
\* is rejected before any transfer: no balance changes, no transaction record is
\* created, the invoice is unchanged, and no such call returns success; a
\* cancelled invoice never becomes paid.
C18_ClosedInvoiceRejected ==
  \A i \in InvoiceIds :
    (InitInvoices[i].exists /\ (InitInvoices[i].status = "cancelled" \/ InitInvoices[i].pastDue))
    => /\ invoices[i] = InitInvoices[i]
       /\ InvoiceTx(i) = {}
       /\ \A p \in InvoiceCalls(i) :
            /\ calls[p].transactionId = 0
            /\ calls[p].pc \notin {"readPayer", "readReceiver", "commit", "markPaid"}
            /\ Done(p) => ~calls[p].success

\* the invoice or order a settlement call is about, as stored now
TargetDoc(c) == IF c.op = "payInvoice" THEN invoices[c.docId] ELSE orders[c.docId]

AlreadyPaidErrors == {"Invoice already paid", "Order already paid"}

\* C19: a settlement call (payInvoice or payOrder) issued after its document has
\* reached status paid returns the failure 'already paid' and changes no wallet
\* balance, no product quantity, no transaction record and no field of the
\* document: a paid document stays paid, issuing a call writes nothing, and the
\* first step of a call that finds its document paid is its return with that
\* failure, nothing else changed.
C19_ReplayAfterPaidRejected ==
  /\ [][ /\ \A i \in InvoiceIds : invoices[i].status = "paid" => invoices'[i].status = "paid"
         /\ \A o \in OrderIds : orders[o].status = "paid" => orders'[o].status = "paid" ]_vars
  /\ [][ \A p \in Procs :
           (calls[p].op = "idle" /\ calls'[p].op # "idle")
           => /\ calls'[p].pc \in {"getInvoice", "getOrder"}
              /\ UNCHANGED <<users, transactions, products, invoices, orders,
                             notifications, observed>> ]_vars
  /\ [][ \A p \in Procs :
           ( /\ calls[p].pc \in {"getInvoice", "getOrder"}
             /\ calls'[p] # calls[p]
             /\ TargetDoc(calls[p]).status = "paid" )
           => /\ calls'[p].pc = "done"
              /\ ~calls'[p].success
              /\ calls'[p].error \in AlreadyPaidErrors
              /\ calls'[p].transactionId = 0
              /\ ~calls'[p].stockDone
              /\ UNCHANGED <<users, transactions, products, invoices, orders,
                             notifications, observed>> ]_vars

\* reached: a settlement of the order has returned with its transaction, the same
\* request sent again has been refused as already paid, and the money and the stock
\* have moved once
C19_Witness ==
  \E p, r \in Procs :
    /\ p # r /\ Done(p) /\ Done(r)
    /\ calls[p].op = "payOrder" /\ calls[r].op = "payOrder"
    /\ calls[p].docId = calls[r].docId
    /\ calls[p].success /\ calls[r].error = "Order already paid"
    /\ orders[calls[p].docId].status = "paid"
    /\ Len(transactions) = 1
    /\ products["p1"].quantity = InitProducts["p1"].quantity - 1
    /\ users["u1"].walletBalance = InitUsers["u1"].walletBalance - 1

\* C20: order ownership: every successful payOrder(orderId, payerId) has
\* order.customerId = payerId, and a call by any other payer is rejected with no
\* stock taken, no transfer and no change of the order.
C20_OrderOwnership ==
  \A p \in Procs :
    (calls[p].op = "payOrder" /\ calls[p].payerId # InitOrders[calls[p].docId].customerId)
    => /\ ~calls[p].success
       /\ ~calls[p].stockDone
       /\ calls[p].transactionId = 0
       /\ orders[calls[p].docId] = InitOrders[calls[p].docId]

\* a payOrder call that has had no effect: no stock written, no transaction
\* recorded, no success reported
RefusedOrPending(p) ==
  /\ ~calls[p].success
  /\ ~calls[p].stockDone
  /\ calls[p].transactionId = 0

\* C21: payOrder on an order whose status is cancelled is rejected with no stock
\* decrement, no balance change and no transaction record; a cancelled order
\* never becomes paid.
C21_CancelledOrderRejected ==
  \A o \in OrderIds :
    InitOrders[o].status = "cancelled"
    => /\ orders[o] = InitOrders[o]
       /\ OrderTx(o) = {}
       /\ \A p \in OrderCalls(o) : RefusedOrPending(p)

\* orders with a line item of a product that is not active
InactiveProductOrders ==
  {o \in OrderIds :
     \E k \in 1..Len(OrderItems(o)) : ~InitProducts[OrderItems(o)[k].productId].isActive}

\* C22: payOrder on an order with a line item whose product has isActive = false
\* is rejected with InsufficientStock and changes no product quantity, balance,
\* transaction record or order status, even when the quantity is sufficient.
C22_InactiveProductRejected ==
  \A o \in InactiveProductOrders :
    /\ orders[o] = InitOrders[o]
    /\ OrderTx(o) = {}
    /\ \A p \in OrderCalls(o) :
         /\ RefusedOrPending(p)
         /\ Done(p) => calls[p].error = "Insufficient stock"

\* C23: a user's walletBalance is written only by processPayment: every step
\* that changes a balance is the commit of a ledger transfer, which appends its
\* transaction record in the same step.
C23_BalanceWrittenOnlyByProcessPayment ==
  [][(\E u \in UserIds : users'[u].walletBalance # users[u].walletBalance)
       => \E p \in Procs :
            /\ calls[p].pc = "commit"
            /\ calls'[p].success
            /\ Len(transactions') = Len(transactions) + 1]_vars

\* a step that changes a product's quantity
QuantityWritten == \E q \in ProductIds : products'[q].quantity # products[q].quantity

\* C24: a product's quantity changes only as the stock decrement of an order
\* settlement (the commit of payOrder's stock transaction), and no operation
\* sets a quantity to a negative value.
C24_QuantityWrittenOnlyBySettlement ==
  /\ [][QuantityWritten
          => \E p \in Procs : calls[p].pc = "stockCommit" /\ calls'[p].stockDone]_vars
  /\ [](\A q \in ProductIds : products[q].quantity >= 0)

\* the step in which the topUpWallet call p returns success
TopUpSucceeds(p) ==
  /\ calls[p].op = "topUpWallet"
  /\ calls[p].pc = "commit"
  /\ calls'[p].pc = "done"
  /\ calls'[p].success

\* the balances and the record a successful topUpWallet(userId, amount, method,
\* metadata) leaves, but for the metadata of the record
TopUpCredited(p) ==
  LET c == calls[p]
      t == transactions'[Len(transactions')] IN
  /\ \A u \in UserIds :
       users'[u].walletBalance =
         users[u].walletBalance + (IF u = c.payerId THEN c.amount ELSE 0)
  /\ Len(transactions') = Len(transactions) + 1
  /\ calls'[p].transactionId = t.id
  /\ t.type = "wallet_topup" /\ t.status = "completed"
  /\ t.payerId = c.payerId /\ t.receiverId = c.payerId
  /\ t.amount = c.amount

\* the topUpWallet calls that have returned, on an account that exists and is
\* active, with no other call issued
TopUpsAlone ==
  {p \in Procs : /\ Started = {p} /\ calls[p].op = "topUpWallet" /\ Done(p)
                 /\ users[calls[p].payerId].exists
                 /\ users[calls[p].payerId].isActive}

\* C25: topUpWallet(userId, amount, method, metadata) of a valid amount on an
\* active account succeeds, and a successful topUpWallet adds amount to that
\* user's balance and to no other, debits nobody, and creates exactly one
\* completed wallet_topup record with payerId = receiverId = userId whose
\* metadata holds paymentMethod = method and the supplied provider reference.
C25_TopUpEffect ==
  /\ [](\A p \in TopUpsAlone : calls[p].success /\ calls[p].transactionId \in TxIds)
  /\ [][\A p \in Procs :
          TopUpSucceeds(p)
          => /\ TopUpCredited(p)
             /\ transactions'[Len(transactions')].paymentMethod = calls[p].method
             /\ transactions'[Len(transactions')].momoReference
                  = calls[p].supplied.momoReference]_vars

\* transferMoney calls whose toUserEmail matches no account
UnknownRecipientCalls ==
  {p \in Procs : calls[p].op = "transferMoney" /\ UserOfEmail(calls[p].docId) = "none"}

\* the step in which transferMoney call p gets the answer of getUserByEmail
RecipientLookedUp(p) ==
  /\ calls[p].op = "transferMoney"
  /\ calls[p].pc = "lookup"
  /\ calls'[p].pc # "lookup"

\* C26: transferMoney with an email that matches no account returns the failure
\* 'Recipient not found' without entering the ledger transfer and without
\* changing a balance or a transaction record; with a matching email it goes on
\* to processPayment with type transfer, the same payer and amount, and the
\* resolved receiver id.
C26_TransferMoneyLookup ==
  /\ [][\A p \in Procs :
          RecipientLookedUp(p)
          => IF p \in UnknownRecipientCalls
             THEN /\ calls'[p].pc = "done"
                  /\ ~calls'[p].success
                  /\ calls'[p].error = "Recipient not found"
                  /\ users' = users /\ transactions' = transactions
             ELSE /\ calls'[p].pc = "readPayer"
                  /\ calls'[p].type = "transfer"
                  /\ calls'[p].receiverId = UserOfEmail(calls[p].docId)
                  /\ calls'[p].payerId = calls[p].payerId
                  /\ calls'[p].amount = calls[p].amount]_vars
  /\ [](\A p \in UnknownRecipientCalls :
          /\ calls[p].pc \in {"lookup", "done"}
          /\ ~calls[p].success
          /\ calls[p].transactionId = 0)

\* one transfer refused for an unknown recipient, next to one that was delegated
\* to processPayment, which has read the payer and is reading the resolved
\* receiver
C26_Witness ==
  \E p \in UnknownRecipientCalls, q \in Procs :
    /\ Done(p) /\ calls[p].error = "Recipient not found"
    /\ calls[q].op = "transferMoney" /\ calls[q].pc = "readReceiver"
    /\ calls[q].type = "transfer"
    /\ calls[q].receiverId = UserOfEmail(calls[q].docId)
    /\ calls[q].snapPayer = users[calls[q].payerId]
    /\ users[calls[q].payerId].exists
    /\ transactions = << >>

\* calls of processInvoicePayment / processOrderPayment whose payerEmail is
\* unknown to the identity lookup
UnknownPayerCalls ==
  {p \in Procs : calls[p].via = "integration" /\ UserOfEmail(calls[p].payerEmail) = "none"}

\* the step in which an integration call gets the answer of getUserByEmail
PayerLookedUp(p) == calls[p].pc = "payerLookup" /\ calls'[p].pc # "payerLookup"

\* C27: with a payer email unknown to the identity lookup, processInvoicePayment
\* and processOrderPayment do not settle: they return a payment link bound to the
\* given invoice / order id, and no balance, quantity, transaction record,
\* notification or invoice / order status changes.
C27_UnknownPayerGetsPaymentLink ==
  /\ [][\A p \in UnknownPayerCalls :
          PayerLookedUp(p)
          => /\ calls'[p].pc = "done"
             /\ ~calls'[p].success
             /\ calls'[p].paymentLink.id = calls[p].docId
             /\ calls'[p].paymentLink.kind
                  = (IF calls[p].op = "payInvoice" THEN "invoice" ELSE "order")
             /\ UNCHANGED <<users, products, transactions, notifications,
                            invoices, orders>>]_vars
  /\ [](\A p \in UnknownPayerCalls :
          /\ calls[p].pc \in {"payerLookup", "done"}
          /\ ~calls[p].success
          /\ ~calls[p].stockDone
          /\ calls[p].transactionId = 0)

\* an invoice and an order both answered with their payment link
C27_Witness ==
  \E p \in UnknownPayerCalls, q \in UnknownPayerCalls :
    /\ Done(p) /\ calls[p].op = "payInvoice"
    /\ calls[p].paymentLink = [kind |-> "invoice", id |-> calls[p].docId]
    /\ Done(q) /\ calls[q].op = "payOrder"
    /\ calls[q].paymentLink = [kind |-> "order", id |-> calls[q].docId]
    /\ transactions = << >> /\ notifications = << >>

\* the step in which sendPaymentNotification has returned to the integration call
NotificationPcs == {"notify", "addNotification"}
NotificationAttempted(p) ==
  calls[p].pc \in NotificationPcs /\ calls'[p].pc \notin NotificationPcs

\* the settlement the integration call p has committed is in place
SettlementStands(p) ==
  /\ calls[p].transactionId \in TxIds
  /\ transactions[calls[p].transactionId].status = "completed"
  /\ transactions[calls[p].transactionId].ref = calls[p].docId
  /\ TargetDoc(calls[p]).status = "paid"

\* C28: a failure to record the notification after a committed settlement is not
\* propagated: processInvoicePayment / processOrderPayment return success with
\* the transaction id whether or not the notification was written, and the
\* committed balances, transaction record and paid status stay as they are.
C28_NotificationFailureSwallowed ==
  /\ [][\A p \in Procs :
          NotificationAttempted(p)
          => /\ calls'[p].pc = "done"
             /\ calls'[p].success
             /\ calls'[p].transactionId = calls[p].transactionId
             /\ UNCHANGED <<users, products, transactions, invoices, orders>>]_vars
  /\ [](\A p \in Procs :
          calls[p].via = "integration" /\ calls[p].pc \in NotificationPcs \cup {"done"}
            /\ calls[p].transactionId # 0
          => SettlementStands(p))

\* an integration settlement that returned success although no notification
\* was recorded
C28_Witness ==
  \E p \in Procs :
    /\ calls[p].via = "integration" /\ Done(p) /\ calls[p].success
    /\ SettlementStands(p)
    /\ notifications = << >>

\* titles of the notifications the triggers add
TransactionTitles == {"Invoice Payment Received", "Order Payment Received"}
StatusTitles == {"Invoice Paid", "Order Paid"}

\* the notifications onTransactionCreated added for transaction n
NotifiedOfTransaction(n) ==
  {k \in 1..Len(notifications) :
     notifications[k].kind \in TransactionTitles /\ notifications[k].transactionId = n}

\* the notifications a status observer added to the company owner for document d
NotifiedOfPaid(d, owner) ==
  {k \in 1..Len(notifications) :
     /\ notifications[k].kind \in StatusTitles
     /\ notifications[k].docId = d
     /\ notifications[k].userId = owner}

\* C29: for every transaction record created, whatever its type, once
\* onTransactionCreated has handled it there is exactly one notification of it;
\* and for every invoice or order that became paid, once the status observer has
\* handled the update there is exactly one notification of it addressed to the
\* company owner.
C29_OneNotificationPerEvent ==
  /\ \A n \in 1..observed.tx : Cardinality(NotifiedOfTransaction(n)) = 1
  /\ \A i \in observed.invoices :
       Cardinality(NotifiedOfPaid(i, InitCompanies[invoices[i].companyId].ownerId)) = 1
  /\ \A o \in observed.orders :
       Cardinality(NotifiedOfPaid(o, InitCompanies[orders[o].companyId].ownerId)) = 1

\* C30: the amount bound is enforced before any mutation: every transaction
\* record is of an amount within 0 < amount <= 100000, and no balance has moved
\* but by such records (a request above the ceiling changes nothing).
C30_AmountWithinCeiling ==
  /\ \A t \in TxIds : ValidatePaymentAmount(transactions[t].amount)
  /\ (transactions = << >> => Balance = InitBalance)

\* the amounts of the completed transactions that credit account u
CompletedCredits(u) ==
  SumOver(TxIds, [t \in TxIds |->
                    IF transactions[t].status = "completed" /\ transactions[t].receiverId = u
                    THEN transactions[t].amount ELSE 0])

\* the amounts of the completed transactions, top-ups aside, that debit account u
CompletedDebits(u) ==
  SumOver(TxIds, [t \in TxIds |->
                    IF /\ transactions[t].status = "completed"
                       /\ transactions[t].type # "wallet_topup"
                       /\ transactions[t].payerId = u
                    THEN transactions[t].amount ELSE 0])

\* the step in which the momoWebhook call in slot p answers 200 'OK'
WebhookHandled(p) ==
  calls[p].op = "momoWebhook" /\ ~Done(p) /\ calls'[p].pc = "done" /\ calls'[p].success

\* C31: a webhook event resolves the transaction whose stored provider reference
\* equals the event's reference: its status becomes completed or failed as the
\* events say and the notification the call records for it is the one of the
\* event's outcome; and a
\* wallet is credited for a top-up only when the top-up's transaction ends
\* completed (balances are the initial ones plus the completed top-ups).
C31_WebhookResolvesTopUp ==
  /\ [][\A p \in Procs :
          WebhookHandled(p) /\ MomoTransaction(calls[p].docId) # {}
          => LET t == calls[p].transactionId IN
             /\ t \in MomoTransaction(calls[p].docId)
             /\ transactions'[t].status \in {"completed", "failed"}
             /\ notifications' # notifications
                  => /\ notifications' =
                          Append(notifications,
                                 PaymentNotification(t, NotificationType(calls[p])))
                     /\ NotificationType(calls[p]) =
                          (IF calls[p].args = <<"SUCCESSFUL">>
                           THEN "success" ELSE "failed")]_vars
  /\ [](\A u \in UserIds : Balance[u] = InitBalance[u] + CompletedCredits(u))

\* the calls of validatePaymentAmount that have returned
AmountValidations == {p \in Procs : calls[p].op = "validatePaymentAmount"}

\* 0 < amount <= 100000 on a number (false of NaN)
WithinAmountBounds(x) == ~x.nan /\ 0 < x.val /\ x.val <= 100000

\* C32: validatePaymentAmount(amount) returns valid = true exactly when
\* 0 < amount <= 100000 and otherwise valid = false with a reason; an amount at
\* or below 0 gets the lower-bound reason; 100000 is valid and 0 is invalid.
C32_ValidatePaymentAmount ==
  \A p \in AmountValidations :
    LET x == calls[p].args[1] IN
    /\ calls[p].success = WithinAmountBounds(x)
    /\ ~calls[p].success => calls[p].error # "none"
    /\ (~x.nan /\ x.val <= 0) => calls[p].error = "Amount must be greater than 0"

\* the calls of validateStockAvailability that have returned
StockValidations == {p \in Procs : calls[p].op = "validateStockAvailability"}

\* the quantity of product q requested over the full item list
RequestedQuantity(orderItems, q) ==
  SumOver(1..Len(orderItems),
          [k \in 1..Len(orderItems) |->
             IF orderItems[k].productId = q THEN orderItems[k].quantity ELSE 0])

\* why item k cannot be served: its product is missing, not active, or short of
\* the total requested for it ("none": it can)
ItemFailure(catalogue, orderItems, k) ==
  LET found == FindProduct(catalogue, orderItems[k].productId, 1) IN
  IF found = 0 THEN "Product not found"
  ELSE IF ~catalogue[found].isActive THEN "Product is not available"
  ELSE IF RequestedQuantity(orderItems, orderItems[k].productId) > catalogue[found].quantity
  THEN "Insufficient stock"
  ELSE "none"

FailingItems(catalogue, orderItems) ==
  {k \in 1..Len(orderItems) : ItemFailure(catalogue, orderItems, k) # "none"}

\* C33: validateStockAvailability(products, orderItems) returns valid = true
\* exactly when every item's product exists, is active and has at least the
\* total quantity requested for it over the full item list; otherwise it returns
\* valid = false with the reason of the first failing item in list order.
C33_ValidateStockAvailability ==
  \A p \in StockValidations :
    LET catalogue == calls[p].args[1]
        orderItems == calls[p].args[2]
        failing == FailingItems(catalogue, orderItems) IN
    /\ calls[p].success = (failing = {})
    /\ failing # {}
         => LET first == CHOOSE k \in failing : \A j \in failing : k <= j IN
            /\ calls[p].error = ItemFailure(catalogue, orderItems, first)
            /\ calls[p].docId = orderItems[first].productId

\* the runs of the status observers
ObserverRuns == {p \in Procs : calls[p].op \in {"onInvoiceStatusChanged", "onOrderStatusChanged"}}

\* the step in which a status observer handles an update event in slot p
UpdateObserved(p) == calls[p].op = "idle" /\ p \in ObserverRuns'

CommittedRequests ==
  {p \in Procs : calls[p].via = "callable" /\ calls[p].transactionId \in TxIds}

\* C35: caller binding: for every transfer committed through the authenticated
\* processPayment callable the payerId of the transaction record, which is the
\* account the transfer debits, is the authenticated caller's uid, whatever the
\* request data contains.
C35_CallerBinding ==
  \A p \in CommittedRequests :
    transactions[calls[p].transactionId].payerId = calls[p].uid

\* the payInvoice and payOrder calls that have returned
ReturnedSettlements == {p \in Procs : calls[p].op \in {"payInvoice", "payOrder"} /\ Done(p)}

\* the call committed a ledger transfer: it holds the id of the record its
\* processPayment created
CommittedTransfer(p) ==
  /\ calls[p].transactionId \in TxIds
  /\ transactions[calls[p].transactionId].ref = calls[p].docId

\* C36: result faithfulness: payInvoice and payOrder return success = true if
\* and only if that call committed a ledger transfer, also when the write that
\* marks the document paid fails after the transfer committed; the committed
\* transfer stays completed.
C36_ResultFaithful ==
  \A p \in ReturnedSettlements :
    /\ calls[p].success <=> CommittedTransfer(p)
    /\ CommittedTransfer(p) => transactions[calls[p].transactionId].status = "completed"

\* C37: ledger consistency: in every reachable state each account's
\* walletBalance is its balance at creation plus the amounts of the completed
\* transactions it is the receiver of, minus the amounts of the completed
\* transactions, top-ups aside, it is the payer of.
C37_LedgerConsistency ==
  \A u \in UserIds :
    Balance[u] = InitBalance[u] + CompletedCredits(u) - CompletedDebits(u)

\* the structured results of processPayment: success with the id of the record
\* it committed, or failure with an error
StructuredResult(p) ==
  \/ calls[p].success /\ calls[p].transactionId \in TxIds
  \/ ~calls[p].success /\ calls[p].error # "none" /\ calls[p].transactionId = 0

\* the step in which the store rejects the commit of call p for a conflicting
\* write
CommitRejected(p) ==
  calls[p].pc = "commit" /\ calls'[p] # calls[p] /\ calls'[p].transactionId = 0

\* the step in which the second read of one document aborts the attempt of call p
ReadAborted(p) ==
  calls[p].pc = "readReceiver" /\ ReadConflict(calls[p]) /\ calls'[p] # calls[p]

\* C38: termination: with a fair store every processPayment call eventually
\* returns; what it returns is a structured result (success with a transaction
\* id, or failure with an error), never an exception; and a call whose attempt
\* is aborted for a conflicting concurrent write (at its commit, or at the second
\* read of one document) is run again or returns a failure, with no balance and
\* no record written by the aborted attempt.
C38_Termination ==
  /\ \A p \in Procs : (calls[p].op # "idle") ~> Done(p)
  /\ [](\A p \in Procs :
          /\ calls[p].pc \in {"idle", "readPayer", "readReceiver", "commit", "done"}
          /\ Done(p) => StructuredResult(p))
  /\ [][\A p \in Procs :
          CommitRejected(p) \/ ReadAborted(p)
          => /\ users' = users /\ transactions' = transactions
             /\ \/ calls'[p].pc = "readPayer" /\ calls'[p].attempts = calls[p].attempts + 1
                \/ calls'[p].pc = "done" /\ ~calls'[p].success
                     /\ calls'[p].error = "aborted"]_vars

\* a call whose commit was rejected for the write of another call, which has
\* returned success, and which is being run again
C38_Witness ==
  \E p \in Procs, q \in Procs :
    /\ calls[p].op = "processPayment" /\ calls[p].attempts > 0
    /\ calls[p].pc \in LedgerPcs
    /\ Done(q) /\ calls[q].success /\ calls[q].transactionId \in TxIds

====
